---- MODULE Spec2Model ----
(***************************************************************************)
(* Client tile coordinator of gpura-gallery (src/store/canvas-store.ts)    *)
(* with the cache-key helpers of lib/canvas-utils.                         *)
(*                                                                         *)
(* JavaScript runs one handler at a time: every action below is one        *)
(* synchronous run of a handler, from its entry (a store call, or the      *)
(* continuation after an await) to its next await or its return.           *)
(***************************************************************************)
EXTENDS Integers, Sequences, FiniteSets, TLC

VARIABLES
    tiles,              \* CanvasState.tiles : Map<string, TileData>
    query,              \* CanvasState.query
    filters,            \* CanvasState.filters
    inFlightRequests,   \* module-level Map<string, Promise<void>>
    activeRequestCount, \* module-level counter
    requestQueue,       \* module-level Array<{key, doFetch}>
    requests,           \* the fetchPromise / doFetch closures created by loadTile
    now,                \* Date.now()
    fa, fb,             \* two filter objects (inputs of hashFilters)
    ha, hb,             \* their fingerprints
    search,             \* CanvasState.search : SearchState
    isSearchMode,       \* CanvasState.isSearchMode
    searchFetches,      \* performSearch / loadMoreSearchResults calls at their await
    tileCache,          \* api/tiles: Map<string, {data, timestamp}>
    pendingRevalidations, \* api/tiles: Set<string>
    searchCache,        \* api/search: Map<string, {data, timestamp}>
    serverNow,          \* Date.now() on the server
    handlers,           \* runs of the GET handlers
    revalidations,      \* runs of revalidateTileInBackground
    call,               \* the arguments of an adapter call
    result,             \* what the call returned
    viewer              \* the state of useViewerStore

searchVars == <<search, isSearchMode, searchFetches>>

serverVars == <<tileCache, pendingRevalidations, searchCache, serverNow,
                handlers, revalidations>>

adapterVars == <<call, result>>

vars == <<tiles, query, filters, inFlightRequests, activeRequestCount,
          requestQueue, requests, now, fa, fb, ha, hb,
          searchVars, serverVars, adapterVars, viewer>>

storeVars == <<tiles, query, filters, inFlightRequests, activeRequestCount,
               requestQueue, requests, now>>

hashVars == <<fa, fb, ha, hb>>

\* everything but the tile coordinator and the client search state
otherVars == <<hashVars, serverVars, adapterVars, viewer>>

(***************************************************************************)
(* Bounds of the model                                                     *)
(***************************************************************************)
\* number of fetchPromise closures loadTile may create in one run of Spec
\* and of SpecClock
MaxRequests == 3
\* the same for SpecWide
MaxWideRequests == 7
\* the same for SpecRetry
MaxRetryRequests == 9
\* number of clock advances in one run
MaxTicks == 2
\* number of GET calls the server handles in one run
MaxHandlers == 3
\* number of background revalidations started in one run
MaxRevalidations == 2
\* number of clock advances on the server in one run
MaxServerTicks == 3

(***************************************************************************)
(* Program constants                                                       *)
(***************************************************************************)
CACHE_TTL == 30 * 60 * 1000
MAX_CONCURRENT_REQUESTS == 6
CARD_WIDTH == 160
CARD_HEIGHT == 200
CARD_GAP == 24
COLS_PER_TILE == 5
ROWS_PER_TILE == 5
ITEMS_PER_TILE == 25
TILE_CACHE_LIMIT == 500
SEARCH_CACHE_LIMIT == 100
SEARCH_PAGE_SIZE == 100
TILE_WIDTH == COLS_PER_TILE * (CARD_WIDTH + CARD_GAP)
TILE_HEIGHT == ROWS_PER_TILE * (CARD_HEIGHT + CARD_GAP)

\* the clock advances in steps of half a TTL, so an entry is seen at ages
\* 0, TTL/2 (fresh) and TTL (no longer fresh: the test is age < CACHE_TTL)
ClockStep == CACHE_TTL \div 2

(***************************************************************************)
(* JavaScript values                                                       *)
(***************************************************************************)
\* an object is the sequence of its own properties in insertion order; a
\* property of a filter object holds an array of strings or undefined
Undefined == [type |-> "undefined"]
Arr(elems) == [type |-> "array", elems |-> elems]
Obj(props) == [type |-> "object", props |-> props]
Prop(name, value) == [name |-> name, value |-> value]

RECURSIVE join(_, _)
\* Array.prototype.join
join(strs, sep) ==
    IF Len(strs) = 0 THEN ""
    ELSE IF Len(strs) = 1 THEN strs[1]
    ELSE strs[1] \o sep \o join(Tail(strs), sep)

quote(s) == "\"" \o s \o "\""

\* JSON.stringify of an object whose properties are string arrays: properties
\* are written in insertion order, array elements in array order, and a
\* property whose value is undefined is left out
JSONstringify(obj) ==
    LET written == SelectSeq(obj.props, LAMBDA p : p.value.type # "undefined")
        member(p) == quote(p.name) \o ":" \o "["
                     \o join([i \in 1..Len(p.value.elems) |-> quote(p.value.elems[i])], ",")
                     \o "]"
    IN "{" \o join([i \in 1..Len(written) |-> member(written[i])], ",") \o "}"

\* hashFilters: the filter fingerprint used in the client tile key
hashFilters(f) ==
    IF f.type = "undefined" THEN "" ELSE JSONstringify(f)

\* getTileKey without the filter fingerprint
getTileKeyWithoutFilters(tileX, tileY, q, filtersHash) ==
    LET base == ToString(tileX) \o "," \o ToString(tileY)
    IN IF q # "" THEN base \o ":" \o q ELSE base

\* getTileKey: "x,y" or "x,y:query:filtersHash"
getTileKey(tileX, tileY, q, filtersHash) ==
    LET base == ToString(tileX) \o "," \o ToString(tileY)
    IN IF q # "" \/ filtersHash # ""
       THEN base \o ":" \o q \o ":" \o filtersHash
       ELSE base

\* the cache key the tile endpoint builds from the request's raw "filters"
\* parameter, which the client sets to JSON.stringify(state.filters) when the
\* filter object has at least one own property
serverCacheKey(tileX, tileY, q, f) ==
    LET filtersParam == IF Len(f.props) > 0 THEN JSONstringify(f) ELSE ""
    IN ToString(tileX) \o "," \o ToString(tileY) \o ":" \o q \o ":" \o filtersParam

(***************************************************************************)
(* Placement (lib/canvas-utils).  seededRandom is the fractional part of   *)
(* Math.sin(seed * 12.9898 + seed * 78.233) * 43758.5453, a function of    *)
(* the seed alone; it is kept as a term of its seed, and the rotation,     *)
(* (seededRandom(seed) - 0.5) * 6, as that term.                           *)
(***************************************************************************)
seededRandom(seed) == [fractionOfSineOf |-> seed]

\* a placement whose rotation also takes the time of the call
getItemPositionAtTime(tileX, tileY, index) ==
    [x |-> tileX * TILE_WIDTH + (index % COLS_PER_TILE) * (CARD_WIDTH + CARD_GAP)
               + CARD_GAP \div 2,
     y |-> tileY * TILE_HEIGHT + (index \div COLS_PER_TILE) * (CARD_HEIGHT + CARD_GAP)
               + CARD_GAP \div 2,
     width |-> CARD_WIDTH,
     height |-> CARD_HEIGHT,
     rotation |-> seededRandom(tileX * 10000 + tileY * 100 + index + now)]

\* a placement that wraps its columns one card early
getItemPositionShortRow(tileX, tileY, index) ==
    [x |-> tileX * TILE_WIDTH
               + (index % (COLS_PER_TILE - 1)) * (CARD_WIDTH + CARD_GAP) + CARD_GAP \div 2,
     y |-> tileY * TILE_HEIGHT + (index \div COLS_PER_TILE) * (CARD_HEIGHT + CARD_GAP)
               + CARD_GAP \div 2,
     width |-> CARD_WIDTH,
     height |-> CARD_HEIGHT,
     rotation |-> seededRandom(tileX * 10000 + tileY * 100 + index)]

\* part_010 113-142
getItemPosition(tileX, tileY, index) ==
    LET baseX == tileX * TILE_WIDTH
        baseY == tileY * TILE_HEIGHT
        col == index % COLS_PER_TILE
        row == index \div COLS_PER_TILE
        seed == tileX * 10000 + tileY * 100 + index
    IN [x |-> baseX + col * (CARD_WIDTH + CARD_GAP) + CARD_GAP \div 2,
        y |-> baseY + row * (CARD_HEIGHT + CARD_GAP) + CARD_GAP \div 2,
        width |-> CARD_WIDTH,
        height |-> CARD_HEIGHT,
        rotation |-> seededRandom(seed)]

\* part_010 147-165
itemsToCanvasItems(items, tileX, tileY) ==
    [i \in 1..Len(items) |->
        LET pos == getItemPosition(tileX, tileY, i - 1)
        IN [id |-> items[i].id, x |-> pos.x, y |-> pos.y,
            width |-> pos.width, height |-> pos.height,
            rotation |-> pos.rotation,
            tileX |-> tileX, tileY |-> tileY]]

(***************************************************************************)
(* Maps                                                                    *)
(***************************************************************************)
EmptyMap == [k \in {} |-> 0]
MapSet(m, k, v) == [x \in DOMAIN m \cup {k} |-> IF x = k THEN v ELSE m[x]]
MapDelete(m, k) == [x \in DOMAIN m \ {k} |-> m[x]]

(***************************************************************************)
(* Tile entries and requests                                               *)
(***************************************************************************)
NoError == "undefined"

LoadingEntry(t) == [items |-> <<>>, loading |-> TRUE, error |-> NoError, timestamp |-> t]
LoadedEntry(items, t) == [items |-> items, loading |-> FALSE, error |-> NoError, timestamp |-> t]
FailedEntry(message, t) == [items |-> <<>>, loading |-> FALSE, error |-> message, timestamp |-> t]

\* A request is one fetchPromise with its doFetch closure.  status:
\*   "free"      not created
\*   "queued"    doFetch waits in requestQueue
\*   "running"   doFetch has run up to its await fetch(...)
\*   "dropped"   doFetch was removed from requestQueue by clearTiles
\*   "resolved" / "rejected"   the promise is settled
\* key, tileX, tileY, query, filters are the values the closure captured.
\* orphan is a history flag: clearTiles ran while the fetch was running.
FreeRequest ==
    [status |-> "free", key |-> "", tileX |-> 0, tileY |-> 0,
     query |-> "", filters |-> Obj(<<>>), orphan |-> FALSE]

\* a settled promise keeps nothing but its state
Settled(status) == [FreeRequest EXCEPT !.status = status]

RequestIds == DOMAIN requests

InFlight(r) == requests[r].status \in {"queued", "running"}

(***************************************************************************)
(* loadTile                                                                *)
(***************************************************************************)
\* the key loadTile and getTileData compute from the current state
currentKey(tileX, tileY) == getTileKey(tileX, tileY, query, hashFilters(filters))

\* the short-circuit without the cache hit: only a loading entry returns
shortCircuitsOnLoadingOnly(existing, t) == existing.loading

\* the short-circuit without the test on items: every fresh entry returns
shortCircuitsOnFreshEntry(existing, t) ==
    existing.loading \/ t - existing.timestamp < CACHE_TTL

\* lines 127-133: the entry short-circuits the call
shortCircuits(existing, t) ==
    LET age == t - existing.timestamp
    IN existing.loading \/ (Len(existing.items) > 0 /\ age < CACHE_TTL)

\* what a loadTile call does: "return" (lines 128-133), "join" (lines
\* 135-137) or "create" (lines 139-206)
loadTileBranch(tileX, tileY) ==
    LET key == currentKey(tileX, tileY)
    IN IF key \in DOMAIN tiles /\ shortCircuits(tiles[key], now) THEN "return"
       ELSE IF key \in DOMAIN inFlightRequests THEN "join"
       ELSE "create"

\* what the promise returned by a loadTile call waits for: nothing ("void",
\* the async function returned undefined), or the fetchPromise of a request
loadTileReturns(tileX, tileY) ==
    LET key == currentKey(tileX, tileY)
        branch == loadTileBranch(tileX, tileY)
    IN IF branch = "return" THEN "void"
       ELSE IF branch = "join" THEN ToString(inFlightRequests[key])
       ELSE "new"

\* lines 141-146: doFetch up to its await: the loading entry is written
\* under the key the closure captured
doFetchStart(st, r, t) ==
    [st EXCEPT !.tiles = MapSet(@, st.requests[r].key, LoadingEntry(t)),
               !.requests[r].status = "running"]

RECURSIVE processQueueAllAtOnce(_, _)
\* a drain that starts everything that waits, whatever the counter says
processQueueAllAtOnce(st, t) ==
    IF Len(st.requestQueue) > 0
    THEN LET next == Head(st.requestQueue)
         IN processQueueAllAtOnce(
                doFetchStart([st EXCEPT !.requestQueue = Tail(@),
                                        !.activeRequestCount = @ + 1], next, t),
                t)
    ELSE st

RECURSIVE processQueue(_, _)
\* lines 38-46
processQueue(st, t) ==
    IF Len(st.requestQueue) > 0 /\ st.activeRequestCount < MAX_CONCURRENT_REQUESTS
    THEN LET next == Head(st.requestQueue)
         IN processQueue(
                doFetchStart([st EXCEPT !.requestQueue = Tail(@),
                                        !.activeRequestCount = @ + 1], next, t),
                t)
    ELSE st

Store == [tiles |-> tiles, inFlightRequests |-> inFlightRequests,
          activeRequestCount |-> activeRequestCount,
          requestQueue |-> requestQueue, requests |-> requests]

Commit(st) ==
    /\ tiles' = st.tiles
    /\ inFlightRequests' = st.inFlightRequests
    /\ activeRequestCount' = st.activeRequestCount
    /\ requestQueue' = st.requestQueue
    /\ requests' = st.requests

\* a queue that takes new requests at its head (unshift instead of push)
startOrQueueAtHead(st, r, t) ==
    IF st.activeRequestCount < MAX_CONCURRENT_REQUESTS
    THEN doFetchStart([st EXCEPT !.activeRequestCount = @ + 1], r, t)
    ELSE [st EXCEPT !.requestQueue = <<r>> \o @]

\* lines 196-202: start at once under the limit, otherwise queue
startOrQueue(st, r, t) ==
    IF st.activeRequestCount < MAX_CONCURRENT_REQUESTS
    THEN doFetchStart([st EXCEPT !.activeRequestCount = @ + 1], r, t)
    ELSE [st EXCEPT !.requestQueue = Append(@, r)]

\* the closure loadTile creates next: the first unused one
NextRequest == CHOOSE i \in RequestIds :
                   /\ requests[i].status = "free"
                   /\ \A j \in RequestIds : requests[j].status = "free" => i <= j

\* lines 139-206: a new fetchPromise is created, started or queued, and
\* registered in inFlightRequests
createRequest(st, r, tileX, tileY, t) ==
    LET key == currentKey(tileX, tileY)
        created == [st EXCEPT !.requests[r] =
                       [status |-> "queued", key |-> key,
                        tileX |-> tileX, tileY |-> tileY,
                        query |-> query, filters |-> filters,
                        orphan |-> FALSE]]
    IN [startOrQueue(created, r, t) EXCEPT
            !.inFlightRequests = MapSet(@, key, r)]

\* a cache hit that refreshes the entry it returns on
cacheHitTouches(st, key, t) ==
    [st EXCEPT !.tiles[key].timestamp = t]

\* lines 128-133: the call returns on the existing entry; nothing is written
cacheHit(st, key, t) == st

LoadTile(tileX, tileY) ==
    /\ IF loadTileBranch(tileX, tileY) = "create"
       THEN /\ \E r \in RequestIds : requests[r].status = "free"
            /\ Commit(createRequest(Store, NextRequest, tileX, tileY, now))
       ELSE IF loadTileBranch(tileX, tileY) = "return"
       THEN Commit(cacheHit(Store, currentKey(tileX, tileY), now))
       ELSE UNCHANGED <<tiles, activeRequestCount, requestQueue, requests,
                        inFlightRequests>>
    /\ UNCHANGED <<query, filters, now, otherVars, searchVars>>

(***************************************************************************)
(* The continuation of doFetch after its awaits                            *)
(***************************************************************************)
\* lines 188-193: the finally block; the promise is resolved in every case
finallyBlock(st, r, t) ==
    LET drained == processQueue(
                       [st EXCEPT !.activeRequestCount = @ - 1,
                                  !.inFlightRequests = MapDelete(@, st.requests[r].key)],
                       t)
    IN [drained EXCEPT !.requests[r] = Settled("resolved")]

\* a catch block that stores nothing
catchBlockSwallows(st, r, message, t) == st

\* lines 177-187: the catch block
catchBlock(st, r, message, t) ==
    [st EXCEPT !.tiles = MapSet(@, st.requests[r].key, FailedEntry(message, t))]

\* lines 169-176: the response is placed and stored
storeResponse(st, r, items, t) ==
    [st EXCEPT !.tiles = MapSet(@, st.requests[r].key,
                   LoadedEntry(itemsToCanvasItems(items, st.requests[r].tileX,
                                                  st.requests[r].tileY), t))]

\* fetch resolved with an OK response carrying items
FetchSucceeds(r, items) ==
    /\ requests[r].status = "running"
    /\ Commit(finallyBlock(storeResponse(Store, r, items, now), r, now))
    /\ UNCHANGED <<query, filters, now, otherVars, searchVars>>

\* fetch rejected, or the response was not OK
FetchFails(r, message) ==
    /\ requests[r].status = "running"
    /\ Commit(finallyBlock(catchBlock(Store, r, message, now), r, now))
    /\ UNCHANGED <<query, filters, now, otherVars, searchVars>>

(***************************************************************************)
(* clearTiles, setQuery, setFilters, lookups                               *)
(***************************************************************************)
\* clearTiles without "requestQueue.length = 0"
clearTilesKeepsQueue(st) ==
    [st EXCEPT !.tiles = EmptyMap,
               !.inFlightRequests = EmptyMap,
               !.activeRequestCount = 0,
               !.requests = [r \in DOMAIN st.requests |->
                               IF st.requests[r].status = "running"
                               THEN [st.requests[r] EXCEPT !.orphan = TRUE]
                               ELSE st.requests[r]]]

\* lines 220-225; the requests removed from the queue are never started, the
\* running ones go on (history: dropped / orphan)
clearTiles(st) ==
    [tiles |-> EmptyMap,
     inFlightRequests |-> EmptyMap,
     activeRequestCount |-> 0,
     requestQueue |-> <<>>,
     requests |-> [r \in DOMAIN st.requests |->
                     IF st.requests[r].status = "queued"
                     THEN [st.requests[r] EXCEPT !.status = "dropped"]
                     ELSE IF st.requests[r].status = "running"
                     THEN [st.requests[r] EXCEPT !.orphan = TRUE]
                     ELSE st.requests[r]]]

ClearTiles ==
    /\ Commit(clearTiles(Store))
    /\ UNCHANGED <<query, filters, now, otherVars, searchVars>>

SetQuery(q) ==
    /\ query' = q
    /\ Commit(clearTiles(Store))
    /\ UNCHANGED <<filters, now, otherVars, searchVars>>

SetFilters(f) ==
    /\ filters' = f
    /\ Commit(clearTiles(Store))
    /\ UNCHANGED <<query, now, otherVars, searchVars>>

\* the entry getTileData returns, Undefined for none
getTileData(tileX, tileY) ==
    LET key == currentKey(tileX, tileY)
    IN IF key \in DOMAIN tiles THEN tiles[key] ELSE Undefined

RECURSIVE concatEntries(_)
concatEntries(keys) ==
    IF keys = {} THEN <<>>
    ELSE LET k == CHOOSE x \in keys : TRUE
         IN tiles[k].items \o concatEntries(keys \ {k})

\* a forEach body that pushes the items of every entry
servesRenderAlways(tileData) == TRUE

\* line 245: the entry's items are pushed
servesRender(tileData) == ~tileData.loading /\ Len(tileData.items) > 0

\* lines 240-251 (the iteration order of the Map is not modelled)
getAllVisibleItems ==
    concatEntries({k \in DOMAIN tiles : servesRender(tiles[k])})

\* lines 253-259
isAnyTileLoading == \E k \in DOMAIN tiles : tiles[k].loading

\* Date.now() advances
Tick ==
    /\ now < MaxTicks * ClockStep
    /\ now' = now + ClockStep
    /\ UNCHANGED <<tiles, query, filters, inFlightRequests, activeRequestCount,
                   requestQueue, requests, otherVars, searchVars>>

(***************************************************************************)
(* Specification of the store                                              *)
(***************************************************************************)
Tiles == {<<0, 0>>, <<1, 0>>}
Queries == {"kerala"}
NoFilters == Obj(<<>>)
FilterInputs == {NoFilters, Obj(<<Prop("languages", Arr(<<"ml">>))>>)}
ResponseItems == {<<>>, <<[id |-> "1"]>>}
ErrorMessages == {"Failed to load tile: Internal Server Error"}

InitStore(n) ==
    /\ tiles = EmptyMap
    /\ query = ""
    /\ filters = NoFilters
    /\ inFlightRequests = EmptyMap
    /\ activeRequestCount = 0
    /\ requestQueue = <<>>
    /\ requests = [r \in 1..n |-> FreeRequest]
    /\ now = 0

\* part_012 50-65: the initial state of the viewer store (title, sourceUrl
\* and the citation metadata, which no action reads, are left out)
InitialViewer ==
    [isOpen |-> FALSE, documentSource |-> "null", pages |-> <<>>,
     currentIndex |-> 0, loading |-> FALSE, error |-> "null",
     viewMode |-> "single"]

InitViewerIdle == viewer = InitialViewer

InitHashIdle ==
    /\ fa = NoFilters
    /\ fb = NoFilters
    /\ ha = ""
    /\ hb = ""

\* lines 96-103: the initial SearchState
InitialSearch ==
    [results |-> <<>>, total |-> 0, loading |-> FALSE, error |-> NoError,
     page |-> 1, hasMore |-> FALSE]

InitSearchIdle ==
    /\ search = InitialSearch
    /\ isSearchMode = FALSE
    /\ searchFetches = <<>>

\* the server with empty caches and no request
InitServerIdle ==
    /\ tileCache = EmptyMap
    /\ pendingRevalidations = {}
    /\ searchCache = EmptyMap
    /\ serverNow = 0
    /\ handlers = <<>>
    /\ revalidations = <<>>

InitAdapterIdle ==
    /\ call = <<>>
    /\ result = <<>>

InitIdle == InitHashIdle /\ InitViewerIdle /\ InitSearchIdle /\ InitServerIdle /\ InitAdapterIdle

Init == InitStore(MaxRequests) /\ InitIdle

Next ==
    \/ \E t \in Tiles : LoadTile(t[1], t[2])
    \/ \E r \in RequestIds, items \in ResponseItems : FetchSucceeds(r, items)
    \/ \E r \in RequestIds, m \in ErrorMessages : FetchFails(r, m)
    \/ ClearTiles
    \/ \E q \in Queries : SetQuery(q)
    \/ \E f \in FilterInputs : SetFilters(f)

Spec == Init /\ [][Next]_vars

\* a running fetch completes, with a response or with an error
SomeFetchCompletes ==
    \/ \E r \in RequestIds, items \in ResponseItems : FetchSucceeds(r, items)
    \/ \E r \in RequestIds, m \in ErrorMessages : FetchFails(r, m)

\* the store when every network fetch eventually completes.  The number of
\* requests is bounded, so "while a fetch is running, some fetch completes"
\* gives every running fetch its completion.
SpecSettle == Spec /\ WF_vars(SomeFetchCompletes)

(***************************************************************************)
(* The store with a running clock, under one query and one filter set      *)
(***************************************************************************)
NextClock ==
    \/ \E t \in Tiles : LoadTile(t[1], t[2])
    \/ \E r \in RequestIds, items \in ResponseItems : FetchSucceeds(r, items)
    \/ \E r \in RequestIds, m \in ErrorMessages : FetchFails(r, m)
    \/ ClearTiles
    \/ Tick

SpecClock == Init /\ [][NextClock]_vars

(***************************************************************************)
(* The store under load: more tiles than MAX_CONCURRENT_REQUESTS.  The     *)
(* tiles are requested as InfiniteCanvas.loadVisibleTiles requests them,   *)
(* nearest to the centre first: a tile is first requested after the tiles  *)
(* before it.                                                              *)
(***************************************************************************)
\* one tile more than the limit: tiles (0,0) .. (MAX_CONCURRENT_REQUESTS,0)
WideTileXs == 0..MAX_CONCURRENT_REQUESTS
WideResponseItems == {<<[id |-> "1"]>>}
\* setQuery and setFilters are called with the values the state already has
\* (FilterBar.clearAllFilters with no filter set)
WideQueries == {""}
WideFilterInputs == {NoFilters}

Requested(tileX, tileY) ==
    \/ currentKey(tileX, tileY) \in DOMAIN tiles
    \/ currentKey(tileX, tileY) \in DOMAIN inFlightRequests

LoadTileInOrder(tileX) ==
    /\ tileX > 0 => Requested(tileX - 1, 0)
    /\ LoadTile(tileX, 0)

InitWide == InitStore(MaxWideRequests) /\ InitIdle

NextWide ==
    \/ \E x \in WideTileXs : LoadTileInOrder(x)
    \/ \E r \in RequestIds, items \in WideResponseItems : FetchSucceeds(r, items)
    \/ ClearTiles
    \/ \E q \in WideQueries : SetQuery(q)
    \/ \E f \in WideFilterInputs : SetFilters(f)

SpecWide == InitWide /\ [][NextWide]_vars

\* the endpoint answers in the order in which the fetches were started
\* (requests are numbered in the order of their creation, and start in it)
OldestFetchSucceeds ==
    \E r \in RequestIds, items \in WideResponseItems :
        /\ \A a \in RequestIds : a < r => requests[a].status # "running"
        /\ FetchSucceeds(r, items)

\* every network fetch eventually completes
FetchesComplete == WF_vars(OldestFetchSucceeds)

\* the store under load with completions and clearTiles alone (setQuery and
\* setFilters with unchanged values do what clearTiles does)
NextDrain ==
    \/ \E x \in WideTileXs : LoadTileInOrder(x)
    \/ OldestFetchSucceeds
    \/ ClearTiles

SpecDrain == InitWide /\ [][NextDrain]_vars /\ FetchesComplete

(***************************************************************************)
(* The store under load while the endpoint fails for tile (0,0) and is     *)
(* slow for every other tile: only the fetches of tile (0,0) complete.     *)
(***************************************************************************)
FetchFailsAtOrigin(r, message) ==
    /\ requests[r].tileX = 0
    /\ requests[r].tileY = 0
    /\ FetchFails(r, message)

InitRetry == InitStore(MaxRetryRequests) /\ InitIdle

NextRetry ==
    \/ \E x \in WideTileXs : LoadTileInOrder(x)
    \/ \E r \in RequestIds, m \in ErrorMessages : FetchFailsAtOrigin(r, m)
    \/ ClearTiles

SpecRetry == InitRetry /\ [][NextRetry]_vars

(***************************************************************************)
(* The store with a queue that fills: two tiles more than                  *)
(* MAX_CONCURRENT_REQUESTS, requested nearest to the centre first as       *)
(* InfiniteCanvas.loadVisibleTiles does.  The endpoint fails for tile       *)
(* (0,0), answers for tile (1,0) and is slow for every other tile.         *)
(***************************************************************************)
MaxQueueRequests == 8

QueueTileXs == 0..(MAX_CONCURRENT_REQUESTS + 1)

FetchSucceedsNear(r, items) ==
    /\ requests[r].tileX = 1
    /\ requests[r].tileY = 0
    /\ FetchSucceeds(r, items)

InitQueue == InitStore(MaxQueueRequests) /\ InitIdle

NextQueue ==
    \/ \E x \in QueueTileXs : LoadTileInOrder(x)
    \/ \E r \in RequestIds, items \in WideResponseItems : FetchSucceedsNear(r, items)
    \/ \E r \in RequestIds, m \in ErrorMessages : FetchFailsAtOrigin(r, m)
    \/ ClearTiles

SpecQueue == InitQueue /\ [][NextQueue]_vars

(***************************************************************************)
(* Filter fingerprints.  Two filter objects are built as FilterBar builds  *)
(* them (toggleLanguage, toggleType: a spread of the old object with one   *)
(* property set), then fingerprinted.                                      *)
(***************************************************************************)
Languages == {"ml", "en"}
Types == {"book"}

HasProp(obj, name) == \E i \in 1..Len(obj.props) : obj.props[i].name = name

\* obj[name] || []
ArrayOf(obj, name) ==
    IF \E i \in 1..Len(obj.props) :
           obj.props[i].name = name /\ obj.props[i].value.type = "array"
    THEN LET i == CHOOSE j \in 1..Len(obj.props) : obj.props[j].name = name
         IN obj.props[i].value.elems
    ELSE <<>>

\* { ...obj, [name]: value }: an own property keeps its place, a new one is
\* appended
Spread(obj, name, value) ==
    IF HasProp(obj, name)
    THEN Obj([i \in 1..Len(obj.props) |->
                 IF obj.props[i].name = name THEN Prop(name, value) ELSE obj.props[i]])
    ELSE Obj(Append(obj.props, Prop(name, value)))

\* FilterBar.toggleLanguage / toggleType
toggle(obj, name, v) ==
    LET current == ArrayOf(obj, name)
        newVals == IF \E i \in 1..Len(current) : current[i] = v
                   THEN SelectSeq(current, LAMBDA e : e # v)
                   ELSE Append(current, v)
    IN Spread(obj, name, IF Len(newVals) > 0 THEN Arr(newVals) ELSE Undefined)

ToggleA(name, v) ==
    /\ fa' = toggle(fa, name, v)
    /\ ha' = ""
    /\ UNCHANGED <<fb, hb, storeVars, searchVars, serverVars, viewer, adapterVars>>

ToggleB(name, v) ==
    /\ fb' = toggle(fb, name, v)
    /\ hb' = ""
    /\ UNCHANGED <<fa, ha, storeVars, searchVars, serverVars, viewer, adapterVars>>

Fingerprint ==
    /\ ha' = hashFilters(fa)
    /\ hb' = hashFilters(fb)
    /\ UNCHANGED <<fa, fb, storeVars, searchVars, serverVars, viewer, adapterVars>>

InitHash == InitStore(MaxRequests) /\ InitIdle

NextHash ==
    \/ \E v \in Languages : ToggleA("languages", v)
    \/ \E v \in Types : ToggleA("types", v)
    \/ \E v \in Languages : ToggleB("languages", v)
    \/ \E v \in Types : ToggleB("types", v)
    \/ Fingerprint

SpecHash == InitHash /\ [][NextHash]_vars

(***************************************************************************)
(* The tile endpoint (app/api/tiles/route.ts).  A handler run is one GET   *)
(* call; it either responds in its first synchronous run or stops at       *)
(* "await adapter.fetchTile(...)" and responds when the adapter returns.   *)
(***************************************************************************)
TILES_CACHE_TTL == 30 * 60 * 1000
STALE_TTL == 60 * 60 * 1000

Num(n) == [type |-> "number", value |-> n]

\* the query string loadTile sends (canvas-store.ts 149-162), as the values
\* the handler reads back from it
tileRequest(tileX, tileY, q, f, seed) ==
    [tx |-> tileX, ty |-> tileY, limit |-> ITEMS_PER_TILE, seed |-> seed,
     q |-> q, filters |-> f]

\* route.ts 80
tilesCacheKey(req) == serverCacheKey(req.tx, req.ty, req.q, req.filters)

\* route.ts 115-121 and 102: the TileRequest handed to adapter.fetchTile; the
\* handler reads no "seed" parameter, the property is absent
fetchTileArgs(req) ==
    [tileX |-> req.tx, tileY |-> req.ty, q |-> req.q, filters |-> req.filters,
     limit |-> req.limit, seed |-> Undefined]

\* preload.ts 1238: const seed = req.seed || 0
effectiveSeed(args) ==
    IF args.seed.type = "number" THEN args.seed.value ELSE 0

TileResponse(tileX, tileY, items) == [tileX |-> tileX, tileY |-> tileY, items |-> items]

CacheEntry(data, t) == [data |-> data, timestamp |-> t]

\* a sweep that also deletes the entries whose age is exactly STALE_TTL
evictOldTilesAtStaleAge(cache, t) ==
    IF Cardinality(DOMAIN cache) > TILE_CACHE_LIMIT
    THEN [k \in {x \in DOMAIN cache : ~(t - cache[x].timestamp >= STALE_TTL)} |-> cache[k]]
    ELSE cache

\* route.ts 132-140: entries older than STALE_TTL are deleted once the cache
\* holds more than TILE_CACHE_LIMIT entries
evictOldTiles(cache, t) ==
    IF Cardinality(DOMAIN cache) > TILE_CACHE_LIMIT
    THEN [k \in {x \in DOMAIN cache : ~(t - cache[x].timestamp > STALE_TTL)} |-> cache[k]]
    ELSE cache

\* a handler run: status "fetching" (at its await) or "responded"
Fetching(route, req, key, args) ==
    [route |-> route, status |-> "fetching", request |-> req, key |-> key,
     fetchArgs |-> args, xcache |-> "", httpStatus |-> 0, data |-> <<>>]

Responded(h, xcache, httpStatus, data) ==
    [h EXCEPT !.status = "responded", !.xcache = xcache,
              !.httpStatus = httpStatus, !.data = data]

\* a cache without the stale window
tileCacheClassNoStale(age) ==
    IF age < TILES_CACHE_TTL THEN "HIT" ELSE "MISS"

\* route.ts 86-111: how an entry of this age is served
tileCacheClass(age) ==
    IF age < TILES_CACHE_TTL THEN "HIT"
    ELSE IF age < STALE_TTL THEN "STALE"
    ELSE "MISS"

\* a revalidation that does not look at pendingRevalidations
revalidateUnguarded(cacheKey, args) ==
    /\ pendingRevalidations' = pendingRevalidations \cup {cacheKey}
    /\ revalidations' = Append(revalidations,
           [status |-> "running", key |-> cacheKey, fetchArgs |-> args,
            entryTimestamp |-> tileCache[cacheKey].timestamp])

\* route.ts 15-25: the synchronous part of revalidateTileInBackground.  A
\* run records the timestamp of the entry it was started for.
revalidateTileInBackground(cacheKey, args) ==
    IF cacheKey \in pendingRevalidations
    THEN UNCHANGED <<pendingRevalidations, revalidations>>
    ELSE /\ pendingRevalidations' = pendingRevalidations \cup {cacheKey}
         /\ revalidations' = Append(revalidations,
                [status |-> "running", key |-> cacheKey, fetchArgs |-> args,
                 entryTimestamp |-> tileCache[cacheKey].timestamp])

\* route.ts 39-121: GET up to its response or its first await
TilesGET(req) ==
    LET cacheKey == tilesCacheKey(req)
        args == fetchTileArgs(req)
        run == Fetching("tiles", req, cacheKey, args)
        cached == cacheKey \in DOMAIN tileCache
        age == serverNow - tileCache[cacheKey].timestamp
    IN /\ Len(handlers) < MaxHandlers
       /\ IF cached /\ tileCacheClass(age) = "HIT"
          THEN /\ handlers' = Append(handlers,
                     Responded(run, "HIT", 200, tileCache[cacheKey].data))
               /\ UNCHANGED <<pendingRevalidations, revalidations>>
          ELSE IF cached /\ tileCacheClass(age) = "STALE"
          THEN /\ \/ cacheKey \in pendingRevalidations
                  \/ Len(revalidations) < MaxRevalidations
               /\ revalidateTileInBackground(cacheKey, args)
               /\ handlers' = Append(handlers,
                     Responded(run, "STALE", 200, tileCache[cacheKey].data))
          ELSE /\ handlers' = Append(handlers, run)
               /\ UNCHANGED <<pendingRevalidations, revalidations>>
       /\ UNCHANGED <<tileCache, searchCache, serverNow>>
       /\ UNCHANGED <<storeVars, hashVars, viewer, searchVars, adapterVars>>

\* route.ts 123-147: adapter.fetchTile returned
TilesFetchReturns(h, items) ==
    /\ handlers[h].route = "tiles"
    /\ handlers[h].status = "fetching"
    /\ LET response == TileResponse(handlers[h].fetchArgs.tileX,
                                    handlers[h].fetchArgs.tileY, items)
       IN /\ tileCache' = evictOldTiles(
                 MapSet(tileCache, handlers[h].key, CacheEntry(response, serverNow)),
                 serverNow)
          /\ handlers' = [handlers EXCEPT ![h] = Responded(@, "MISS", 200, response)]
    /\ UNCHANGED <<pendingRevalidations, revalidations, searchCache, serverNow>>
    /\ UNCHANGED <<storeVars, hashVars, viewer, searchVars, adapterVars>>

\* route.ts 148-154: getDataAdapter or adapter.fetchTile threw
TilesFetchThrows(h) ==
    /\ handlers[h].route = "tiles"
    /\ handlers[h].status = "fetching"
    /\ handlers' = [handlers EXCEPT ![h] = Responded(@, "", 500, <<>>)]
    /\ UNCHANGED <<tileCache, pendingRevalidations, revalidations, searchCache, serverNow>>
    /\ UNCHANGED <<storeVars, hashVars, viewer, searchVars, adapterVars>>

\* route.ts 27-31, 34-36: the background fetch returned
RevalidationReturns(r, items) ==
    /\ revalidations[r].status = "running"
    /\ tileCache' = MapSet(tileCache, revalidations[r].key,
           CacheEntry(TileResponse(revalidations[r].fetchArgs.tileX,
                                   revalidations[r].fetchArgs.tileY, items),
                      serverNow))
    /\ pendingRevalidations' = pendingRevalidations \ {revalidations[r].key}
    /\ revalidations' = [revalidations EXCEPT ![r].status = "done"]
    /\ UNCHANGED <<handlers, searchCache, serverNow>>
    /\ UNCHANGED <<storeVars, hashVars, viewer, searchVars, adapterVars>>

\* route.ts 32-36: the background fetch threw
RevalidationThrows(r) ==
    /\ revalidations[r].status = "running"
    /\ pendingRevalidations' = pendingRevalidations \ {revalidations[r].key}
    /\ revalidations' = [revalidations EXCEPT ![r].status = "failed"]
    /\ UNCHANGED <<tileCache, handlers, searchCache, serverNow>>
    /\ UNCHANGED <<storeVars, hashVars, viewer, searchVars, adapterVars>>

\* Date.now() advances on the server
ServerTick(step) ==
    /\ serverNow < MaxServerTicks * step
    /\ serverNow' = serverNow + step
    /\ UNCHANGED <<tileCache, pendingRevalidations, searchCache, handlers, revalidations>>
    /\ UNCHANGED <<storeVars, hashVars, viewer, searchVars, adapterVars>>

\* the session seeds of two page loads
SessionSeeds == {0, 1}
TileRequests ==
    {tileRequest(x, 0, "", NoFilters, seed) : x \in {0, 1}, seed \in SessionSeeds}
\* what adapter.fetchTile returns: lists of item ids
AdapterItems == {<<"a">>, <<"b">>}

\* the clock is observed at multiples of the fresh TTL: ages 0 (fresh),
\* TTL (stale), 2 * TTL = STALE_TTL (expired)
InitTiles == InitStore(0) /\ InitIdle

NextTiles ==
    \/ \E req \in TileRequests : TilesGET(req)
    \/ \E h \in DOMAIN handlers, items \in AdapterItems : TilesFetchReturns(h, items)
    \/ \E h \in DOMAIN handlers : TilesFetchThrows(h)
    \/ \E r \in DOMAIN revalidations, items \in AdapterItems : RevalidationReturns(r, items)
    \/ \E r \in DOMAIN revalidations : RevalidationThrows(r)
    \/ ServerTick(TILES_CACHE_TTL)

SpecTiles == InitTiles /\ [][NextTiles]_vars

(***************************************************************************)
(* The tile endpoint with a cache that is one entry short of               *)
(* TILE_CACHE_LIMIT: the tiles (1,1) .. (TILE_CACHE_LIMIT - 1, 1) were     *)
(* requested before, every second one a fresh TTL ago, the others just     *)
(* now.                                                                    *)
(***************************************************************************)
EarlierTiles == 1..(TILE_CACHE_LIMIT - 1)

EarlierEntries ==
    [k \in {serverCacheKey(x, 1, "", NoFilters) : x \in EarlierTiles} |->
        LET x == CHOOSE x \in EarlierTiles : serverCacheKey(x, 1, "", NoFilters) = k
        IN CacheEntry(TileResponse(x, 1, <<"a">>),
                      IF x % 2 = 0 THEN 0 ELSE TILES_CACHE_TTL)]

InitSweep ==
    /\ InitStore(0)
    /\ InitHashIdle /\ InitViewerIdle /\ InitSearchIdle /\ InitAdapterIdle
    /\ tileCache = EarlierEntries
    /\ pendingRevalidations = {}
    /\ searchCache = EmptyMap
    /\ serverNow = TILES_CACHE_TTL
    /\ handlers = <<>>
    /\ revalidations = <<>>

SpecSweep == InitSweep /\ [][NextTiles]_vars

(***************************************************************************)
(* The search endpoint (the cached GET of api/search)                      *)
(***************************************************************************)
SEARCH_CACHE_TTL == 5 * 60 * 1000

\* the query string performSearch / loadMoreSearchResults send
\* (canvas-store.ts 296-304, 349-357)
searchRequest(q, page, f) ==
    [q |-> q, page |-> page, pageSize |-> SEARCH_PAGE_SIZE, filters |-> f]

\* the raw "filters" parameter: set when the object has an own property
filtersParam(f) == IF Len(f.props) > 0 THEN JSONstringify(f) ELSE ""

\* the filter has a value: a non-empty array (an undefined property does
\* not survive JSON.stringify / JSON.parse)
hasFilters(f) ==
    \E i \in 1..Len(f.props) :
        f.props[i].value.type = "array" /\ Len(f.props[i].value.elems) > 0

searchCacheKey(req) ==
    req.q \o ":" \o ToString(req.page) \o ":" \o ToString(req.pageSize)
          \o ":" \o filtersParam(req.filters)

SearchResponse(items, total) == [items |-> items, total |-> total]

\* entries older than the TTL are deleted once the cache holds more than
\* SEARCH_CACHE_LIMIT entries
evictOldSearches(cache, t) ==
    IF Cardinality(DOMAIN cache) > SEARCH_CACHE_LIMIT
    THEN [k \in {x \in DOMAIN cache : ~(t - cache[x].timestamp > SEARCH_CACHE_TTL)} |-> cache[k]]
    ELSE cache

\* GET up to its response or its first await; q.trim() is q for the queries
\* of this model
SearchGET(req) ==
    LET cacheKey == searchCacheKey(req)
        run == Fetching("search", req, cacheKey, req)
    IN /\ Len(handlers) < MaxHandlers
       /\ handlers' = Append(handlers,
              IF req.q = "" /\ ~hasFilters(req.filters)
              THEN Responded(run, "", 200, SearchResponse(<<>>, 0))
              ELSE IF /\ cacheKey \in DOMAIN searchCache
                      /\ serverNow - searchCache[cacheKey].timestamp < SEARCH_CACHE_TTL
              THEN Responded(run, "HIT", 200, searchCache[cacheKey].data)
              ELSE run)
       /\ UNCHANGED <<tileCache, pendingRevalidations, revalidations, searchCache, serverNow>>
       /\ UNCHANGED <<storeVars, hashVars, viewer, searchVars, adapterVars>>

\* adapter.search returned
SearchReturns(h, data) ==
    /\ handlers[h].route = "search"
    /\ handlers[h].status = "fetching"
    /\ searchCache' = evictOldSearches(
           MapSet(searchCache, handlers[h].key, CacheEntry(data, serverNow)), serverNow)
    /\ handlers' = [handlers EXCEPT ![h] = Responded(@, "MISS", 200, data)]
    /\ UNCHANGED <<tileCache, pendingRevalidations, revalidations, serverNow>>
    /\ UNCHANGED <<storeVars, hashVars, viewer, searchVars, adapterVars>>

\* getDataAdapter or adapter.search threw
SearchThrows(h) ==
    /\ handlers[h].route = "search"
    /\ handlers[h].status = "fetching"
    /\ handlers' = [handlers EXCEPT ![h] = Responded(@, "", 500, SearchResponse(<<>>, 0))]
    /\ UNCHANGED <<tileCache, pendingRevalidations, revalidations, searchCache, serverNow>>
    /\ UNCHANGED <<storeVars, hashVars, viewer, searchVars, adapterVars>>

SearchRequests ==
    {searchRequest(q, page, NoFilters) : q \in {"", "kerala"}, page \in {1, 2}}
\* what adapter.search returns
SearchResults ==
    {SearchResponse(<<"a">>, 1), SearchResponse(<<"a", "b">>, 3), SearchResponse(<<>>, -1)}

InitSearchRoute == InitStore(0) /\ InitIdle

NextSearchRoute ==
    \/ \E req \in SearchRequests : SearchGET(req)
    \/ \E h \in DOMAIN handlers, data \in SearchResults : SearchReturns(h, data)
    \/ \E h \in DOMAIN handlers : SearchThrows(h)
    \/ ServerTick(SEARCH_CACHE_TTL)

SpecSearchRoute == InitSearchRoute /\ [][NextSearchRoute]_vars

(***************************************************************************)
(* OmekaAdapter.fetchTile (server/adapters).  JavaScript numbers are IEEE  *)
(* doubles: s * 1103515245 exceeds 2^53 and is rounded before "& 0x7fff-   *)
(* ffff" takes its low 31 bits.  A number is held as four base-2^16 digits *)
(* <<d0, d1, d2, d3>> (d0 lowest).                                         *)
(***************************************************************************)
PRIME_X == 7
PRIME_Y == 11
MAX_PAGES == 100
NEGATIVE_OFFSET == 100
TILE_SEED_STRIDE == 1000
LCG_MULTIPLIER_HI == 16838
LCG_MULTIPLIER_LO == 20077
LCG_INCREMENT == 12345
MAX_THUMBNAIL_FETCHES == 15
Base == 65536

RECURSIVE pow2(_)
pow2(n) == IF n = 0 THEN 1 ELSE 2 * pow2(n - 1)

RECURSIVE bitLength(_)
\* number of bits of a non-negative integer below 2^16
bitLength(n) == IF n = 0 THEN 0 ELSE 1 + bitLength(n \div 2)

\* the digits of s * 1103515245 for 0 <= s < 2^31 (the multiplier is
\* LCG_MULTIPLIER_HI * 2^16 + LCG_MULTIPLIER_LO)
timesMultiplier(s) ==
    LET s0 == s % Base
        s1 == s \div Base
        t0 == s0 * LCG_MULTIPLIER_LO
        t1 == s1 * LCG_MULTIPLIER_LO + s0 * LCG_MULTIPLIER_HI + t0 \div Base
        t2 == s1 * LCG_MULTIPLIER_HI + t1 \div Base
    IN <<t0 % Base, t1 % Base, t2 % Base, t2 \div Base>>

\* digits + n for 0 <= n < 2^16
plusSmall(d, n) ==
    LET t0 == d[1] + n
        t1 == d[2] + t0 \div Base
        t2 == d[3] + t1 \div Base
        t3 == d[4] + t2 \div Base
    IN <<t0 % Base, t1 % Base, t2 % Base, t3>>

\* the number of bits of the number
bitsOf(d) ==
    IF d[4] > 0 THEN 48 + bitLength(d[4])
    ELSE IF d[3] > 0 THEN 32 + bitLength(d[3])
    ELSE IF d[2] > 0 THEN 16 + bitLength(d[2])
    ELSE bitLength(d[1])

\* the nearest double, ties to even: a number of more than 53 bits keeps its
\* 53 highest bits (the numbers here have at most 62 bits, so only d0 is cut)
toDouble(d) ==
    IF bitsOf(d) <= 53 THEN d
    ELSE LET ulp == pow2(bitsOf(d) - 53)
             rest == d[1] % ulp
             down == <<d[1] - rest, d[2], d[3], d[4]>>
             odd == (d[1] \div ulp) % 2 = 1
         IN IF 2 * rest > ulp \/ (2 * rest = ulp /\ odd)
            THEN plusSmall(down, ulp)
            ELSE down

\* x & 0x7fffffff: the low 31 bits
low31(d) == (d[2] % 32768) * Base + d[1]

\* preload.ts 1218: s = (s * 1103515245 + 12345) & 0x7fffffff
lcgNext(s) == low31(toDouble(plusSmall(toDouble(timesMultiplier(s)), LCG_INCREMENT)))

swap(array, i, j) ==
    [k \in 1..Len(array) |->
        IF k = i THEN array[j] ELSE IF k = j THEN array[i] ELSE array[k]]

RECURSIVE shuffleFrom(_, _, _)
\* the loop of shuffleWithSeed for the (0-based) index i and below
shuffleFrom(array, s, i) ==
    IF i <= 0 THEN array
    ELSE LET s2 == lcgNext(s)
             j == s2 % (i + 1)
         IN shuffleFrom(swap(array, i + 1, j + 1), s2, i - 1)

\* preload.ts 1213-1223
shuffleWithSeed(array, seed) == shuffleFrom(array, seed, Len(array) - 1)

\* preload.ts 1244-1245: Math.abs(c) + (c < 0 ? 100 : 0)
absCoord(c) == IF c < 0 THEN (0 - c) + NEGATIVE_OFFSET ELSE c

\* a page formula without the prime strides: neighbours on a diagonal collide
tilePageUnitStrides(tileX, tileY, seed) ==
    ((absCoord(tileX) + absCoord(tileY) + seed) % MAX_PAGES) + 1

\* preload.ts 1246: the upstream page of a tile
tilePage(tileX, tileY, seed) ==
    ((absCoord(tileX) * PRIME_X + absCoord(tileY) * PRIME_Y + seed) % MAX_PAGES) + 1

\* preload.ts 1249
tileSortOrder(tileX, tileY, seed) ==
    IF (absCoord(tileX) + absCoord(tileY) + seed) % 2 = 0 THEN "desc" ELSE "asc"

\* a shuffle seed that also takes the time of the call
tileSeedWithClock(tileX, tileY, seed) ==
    absCoord(tileX) * TILE_SEED_STRIDE + absCoord(tileY) + seed + serverNow

\* preload.ts 1405
tileSeed(tileX, tileY, seed) ==
    absCoord(tileX) * TILE_SEED_STRIDE + absCoord(tileY) + seed

(***************************************************************************)
(* Strings.  Module text is ASCII: the en dash (U+2013) of the period      *)
(* labels is written "~".                                                  *)
(***************************************************************************)
Null == [type |-> "null"]
Str(s) == [type |-> "string", value |-> s]
EnDash == "~"

charAt(s, i) == SubSeq(s, i, i)

\* String.prototype.includes
includes(s, part) ==
    \E i \in 1..(Len(s) - Len(part) + 1) : SubSeq(s, i, i + Len(part) - 1) = part

\* String.prototype.endsWith
endsWith(s, part) ==
    Len(s) >= Len(part) /\ SubSeq(s, Len(s) - Len(part) + 1, Len(s)) = part

UpperCase == "ABCDEFGHIJKLMNOPQRSTUVWXYZ"
LowerCase == "abcdefghijklmnopqrstuvwxyz"

lowerChar(c) ==
    IF \E i \in 1..Len(UpperCase) : charAt(UpperCase, i) = c
    THEN charAt(LowerCase, CHOOSE i \in 1..Len(UpperCase) : charAt(UpperCase, i) = c)
    ELSE c

RECURSIVE toLowerCase(_)
toLowerCase(s) ==
    IF Len(s) = 0 THEN "" ELSE lowerChar(charAt(s, 1)) \o toLowerCase(SubSeq(s, 2, Len(s)))

\* s.trim().length === 0
isBlank(s) == \A i \in 1..Len(s) : charAt(s, i) = " "

Digits == "0123456789"
isDigit(c) == \E i \in 1..Len(Digits) : charAt(Digits, i) = c
digitValue(c) == (CHOOSE i \in 1..Len(Digits) : charAt(Digits, i) = c) - 1
isDigits(s) == \A i \in 1..Len(s) : isDigit(charAt(s, i))

RECURSIVE parseInt(_)
\* parseInt(s, 10) of a string of digits
parseInt(s) ==
    IF Len(s) = 0 THEN 0
    ELSE parseInt(SubSeq(s, 1, Len(s) - 1)) * 10 + digitValue(charAt(s, Len(s)))

\* a JavaScript value is truthy: here a non-empty string
truthy(v) == v.type = "string" /\ v.value # ""

(***************************************************************************)
(* Time ranges and period labels                                           *)
(***************************************************************************)
Range_(label, min, max) == [type |-> "range", label |-> label, min |-> min, max |-> max]

TIME_RANGES ==
    << Range_("Before 1900", Undefined, Num(1899)),
       Range_("1900" \o EnDash \o "1947", Num(1900), Num(1947)),
       Range_("1947" \o EnDash \o "1975", Num(1948), Num(1975)),
       Range_("1975" \o EnDash \o "2000", Num(1976), Num(2000)),
       Range_("After 2000", Num(2001), Undefined) >>

\* /^(\d{3,4})$/
yearMatch(label) == Len(label) \in {3, 4} /\ isDigits(label)

\* \s*[~-]\s*
isSeparator(s) ==
    \E i \in 1..Len(s) :
        /\ charAt(s, i) \in {EnDash, "-"}
        /\ \A j \in 1..Len(s) : j # i => charAt(s, j) = " "

\* /^(\d{3,4})\s*[~-]\s*(\d{3,4})$/: the lengths of the two groups
rangeGroups(label) ==
    { g \in {3, 4} \X {3, 4} :
        /\ Len(label) > g[1] + g[2]
        /\ isDigits(SubSeq(label, 1, g[1]))
        /\ isDigits(SubSeq(label, Len(label) - g[2] + 1, Len(label)))
        /\ isSeparator(SubSeq(label, g[1] + 1, Len(label) - g[2])) }

\* the range a period label selects, or undefined
periodRange(label) ==
    IF \E i \in 1..Len(TIME_RANGES) : TIME_RANGES[i].label = label
    THEN TIME_RANGES[CHOOSE i \in 1..Len(TIME_RANGES) : TIME_RANGES[i].label = label]
    ELSE IF rangeGroups(label) # {}
    THEN LET g == CHOOSE h \in rangeGroups(label) : TRUE
         IN Range_(label, Num(parseInt(SubSeq(label, 1, g[1]))),
                   Num(parseInt(SubSeq(label, Len(label) - g[2] + 1, Len(label)))))
    ELSE IF yearMatch(label)
    THEN Range_(label, Num(parseInt(label)), Num(parseInt(label)))
    ELSE Undefined

selectedRanges(periods) ==
    SelectSeq([i \in 1..Len(periods) |-> periodRange(periods[i])],
              LAMBDA r : r.type # "undefined")

\* range.min ?? -Infinity, range.max ?? Infinity
inRange(year, range) ==
    /\ range.min.type = "number" => year >= range.min.value
    /\ range.max.type = "number" => year <= range.max.value

(***************************************************************************)
(* Items.  An upstream item holds what transformItem reads from it: its    *)
(* id, year (null or a number), language, type and collection ("" when     *)
(* absent: the filters only test truthiness), the first thumbnail URL its  *)
(* own fields give (null or a non-empty string) and its media references.  *)
(* A media reference holds its "@id" and what its detail document gives:   *)
(* the listed thumbnail and the thumbnail derived from an IIIF manifest.   *)
(***************************************************************************)
MediaRef(id, thumb, iiif) == [id |-> id, thumb |-> thumb, iiif |-> iiif]

OmekaItem(id, year, language, type, collection, thumbnail, media) ==
    [id |-> id, year |-> year, language |-> language, type |-> type,
     collection |-> collection, thumbnail |-> thumbnail, media |-> media]

\* preload.ts 594-605
isPlaceholderThumbnail(url) ==
    LET lowerUrl == toLowerCase(url)
    IN \/ includes(lowerUrl, "/application/")
       \/ includes(lowerUrl, "/asset/")
       \/ includes(lowerUrl, "default")
       \/ includes(lowerUrl, "placeholder")
       \/ includes(lowerUrl, "fallback")
       \/ endsWith(lowerUrl, ".svg")

\* preload.ts 679-736: placeholders are filtered out
getThumbnailUrl(item) ==
    IF truthy(item.thumbnail) /\ isPlaceholderThumbnail(item.thumbnail.value)
    THEN Null
    ELSE item.thumbnail

\* preload.ts 861-892
transformItem(item) ==
    [id |-> item.id, year |-> item.year, language |-> item.language,
     type |-> item.type, collection |-> item.collection,
     thumbnailUrl |-> getThumbnailUrl(item)]

\* preload.ts 610-674: null on any failure of the media request
fetchMediaThumbnail(mediaRef, mediaUp) ==
    IF mediaRef.id = "" THEN Null
    ELSE IF ~mediaUp THEN Null
    ELSE IF truthy(mediaRef.thumb) /\ ~isPlaceholderThumbnail(mediaRef.thumb.value)
    THEN mediaRef.thumb
    ELSE mediaRef.iiif

RECURSIVE firstRealThumb(_, _)
\* preload.ts 1378-1388: the first media reference that gives a thumbnail,
\* null when none does
firstRealThumb(mediaRefs, mediaUp) ==
    IF Len(mediaRefs) = 0 THEN Null
    ELSE LET realThumb == fetchMediaThumbnail(Head(mediaRefs), mediaUp)
         IN IF truthy(realThumb) THEN realThumb
            ELSE firstRealThumb(Tail(mediaRefs), mediaUp)

withThumbnail(item, url) == [item EXCEPT !.thumbnailUrl = url]

\* item.thumbnailUrl && item.thumbnailUrl.trim().length > 0
hasThumbnail(item) == truthy(item.thumbnailUrl) /\ ~isBlank(item.thumbnailUrl.value)

(***************************************************************************)
(* Filters of a request: the filter object or undefined                    *)
(***************************************************************************)
\* f && f[name] && f[name].length > 0 ? f[name] : []
listOf(f, name) == IF f.type = "undefined" THEN <<>> ELSE ArrayOf(f, name)

\* f ? f[name] : undefined, for yearMin and yearMax
numberOf(f, name) ==
    IF f.type = "undefined" THEN Undefined
    ELSE IF \E i \in 1..Len(f.props) :
                f.props[i].name = name /\ f.props[i].value.type = "number"
    THEN f.props[CHOOSE i \in 1..Len(f.props) : f.props[i].name = name].value
    ELSE Undefined

contains(list, v) == \E i \in 1..Len(list) : list[i] = v

byLanguages(items, f) ==
    IF Len(listOf(f, "languages")) > 0
    THEN SelectSeq(items, LAMBDA item :
             item.language # "" /\ contains(listOf(f, "languages"), item.language))
    ELSE items

byTypes(items, f) ==
    IF Len(listOf(f, "types")) > 0
    THEN SelectSeq(items, LAMBDA item :
             item.type # "" /\ contains(listOf(f, "types"), item.type))
    ELSE items

byYearMin(items, f) ==
    IF numberOf(f, "yearMin").type = "number"
    THEN SelectSeq(items, LAMBDA item :
             item.year.type = "number" /\ item.year.value >= numberOf(f, "yearMin").value)
    ELSE items

byYearMax(items, f) ==
    IF numberOf(f, "yearMax").type = "number"
    THEN SelectSeq(items, LAMBDA item :
             item.year.type = "number" /\ item.year.value <= numberOf(f, "yearMax").value)
    ELSE items

\* labels that select no range leave the list as it is
byPeriods(items, f) ==
    LET ranges == selectedRanges(listOf(f, "periods"))
    IN IF Len(ranges) > 0
       THEN SelectSeq(items, LAMBDA item :
                /\ item.year.type = "number"
                /\ \E i \in 1..Len(ranges) : inRange(item.year.value, ranges[i]))
       ELSE items

byCollections(items, f) ==
    IF Len(listOf(f, "collections")) > 0
    THEN SelectSeq(items, LAMBDA item :
             item.collection # "" /\ contains(listOf(f, "collections"), item.collection))
    ELSE items

\* preload.ts 1275-1349: every filter is applied to the page
tileFilters(items, f) ==
    byCollections(byPeriods(byYearMax(byYearMin(byTypes(byLanguages(items, f), f), f), f), f), f)

(***************************************************************************)
(* fetchTile.  The upstream holds the page a "desc" request gets (an "asc" *)
(* request gets it reversed), whether the items request succeeds and       *)
(* whether media requests succeed.                                         *)
(***************************************************************************)
Upstream(ok, items, mediaUp) == [ok |-> ok, items |-> items, mediaUp |-> mediaUp]

Reverse(seq) == [i \in 1..Len(seq) |-> seq[Len(seq) + 1 - i]]

upstreamPage(upstream, sortOrder) ==
    IF sortOrder = "desc" THEN upstream.items ELSE Reverse(upstream.items)

\* what a call gives its caller: the list it resolves to, or a rejection;
\* page and sortOrder are the parameters of its items request
Outcome(threw, items, page, sortOrder) ==
    [threw |-> threw, items |-> items, page |-> page, sortOrder |-> sortOrder]

\* a catch block that lets the error through
rethrowItemsError(page, sortOrder) == Outcome(TRUE, <<>>, page, sortOrder)

\* preload.ts 1269-1273: the catch block returns []
onItemsError(page, sortOrder) == Outcome(FALSE, <<>>, page, sortOrder)

\* rawItems.find(r => String(r["o:id"]) === item.id)
rawItemOf(rawItems, item) ==
    rawItems[CHOOSE i \in 1..Len(rawItems) :
                 /\ rawItems[i].id = item.id
                 /\ \A j \in 1..(i - 1) : rawItems[j].id # item.id]

\* preload.ts 1355-1371: the item has no thumbnail, or a placeholder, and
\* its upstream item has media
needsThumbnail(rawItems, item) ==
    /\ ~hasThumbnail(item) \/ isPlaceholderThumbnail(item.thumbnailUrl.value)
    /\ Len(rawItemOf(rawItems, item).media) > 0

\* preload.ts 1364-1370: a placeholder without media is cleared
clearOrphanPlaceholder(rawItems, item) ==
    IF /\ hasThumbnail(item)
       /\ isPlaceholderThumbnail(item.thumbnailUrl.value)
       /\ Len(rawItemOf(rawItems, item).media) = 0
    THEN withThumbnail(item, Null)
    ELSE item

\* preload.ts 1352-1396: the list after the thumbnail fetches
resolveThumbnails(rawItems, items, mediaUp) ==
    LET itemsNeedingThumbnails ==
            SelectSeq([i \in 1..Len(items) |-> i],
                      LAMBDA i : needsThumbnail(rawItems, items[i]))
        rank(i) == CHOOSE k \in 1..Len(itemsNeedingThumbnails) :
                       itemsNeedingThumbnails[k] = i
    IN [i \in 1..Len(items) |->
           IF ~contains(itemsNeedingThumbnails, i)
           THEN clearOrphanPlaceholder(rawItems, items[i])
           ELSE IF rank(i) <= MAX_THUMBNAIL_FETCHES
           THEN withThumbnail(items[i],
                    firstRealThumb(rawItemOf(rawItems, items[i]).media, mediaUp))
           ELSE IF /\ truthy(items[i].thumbnailUrl)
                   /\ isPlaceholderThumbnail(items[i].thumbnailUrl.value)
           THEN withThumbnail(items[i], Null)
           ELSE items[i]]

\* a final step that keeps every item
keepAll(items) == items

\* preload.ts 1399-1402
dropWithoutThumbnail(items) == SelectSeq(items, hasThumbnail)

\* Array.prototype.slice(0, end)
slice0(seq, end) ==
    LET last == IF end >= 0 THEN end ELSE Len(seq) + end
    IN SubSeq(seq, 1, IF last > Len(seq) THEN Len(seq) ELSE IF last < 0 THEN 0 ELSE last)

\* preload.ts 1228-1410
fetchTile(req, upstream) ==
    LET seed == effectiveSeed(req)
        page == tilePage(req.tileX, req.tileY, seed)
        sortOrder == tileSortOrder(req.tileX, req.tileY, seed)
        rawItems == upstreamPage(upstream, sortOrder)
        transformedItems == [i \in 1..Len(rawItems) |-> transformItem(rawItems[i])]
        filtered == tileFilters(transformedItems, req.filters)
        resolved == resolveThumbnails(rawItems, filtered, upstream.mediaUp)
        shuffled == shuffleWithSeed(dropWithoutThumbnail(resolved),
                                    tileSeed(req.tileX, req.tileY, seed))
    IN IF ~upstream.ok
       THEN onItemsError(page, sortOrder)
       ELSE Outcome(FALSE, slice0(shuffled, req.limit), page, sortOrder)

(***************************************************************************)
(* Calls of fetchTile.  call holds a tile request and the upstream it      *)
(* meets; every call with it appends what the caller gets to result.  The  *)
(* clock may advance between the calls.                                    *)
(***************************************************************************)
MaxCalls == 2
MaxBatch == 17

Thumb(id) == Str("https://g.org/f/" \o id \o ".jpg")

\* 1: a thumbnail of its own;  2: none, its media lists one;  3: a
\* placeholder and no media;  4: a blank one, its second media reference
\* lists a placeholder and has an IIIF image;  5: none and no media;
\* 6: none, its media's manifest gives a blank URL
MixedPage ==
    << OmekaItem("1", Num(1950), "ml", "book", "Main", Thumb("1"), <<>>),
       OmekaItem("2", Num(1890), "en", "book", "", Null,
                 <<MediaRef("m2", Thumb("2"), Null)>>),
       OmekaItem("3", Null, "ml", "", "Main",
                 Str("https://g.org/application/asset/Default.png"), <<>>),
       OmekaItem("4", Num(1960), "ml", "book", "Main", Str("  "),
                 << MediaRef("", Thumb("4"), Null),
                    MediaRef("m4", Str("https://g.org/x/placeholder.png"),
                             Str("https://g.org/iiif/4/full/400,/0/default.jpg")) >>),
       OmekaItem("5", Num(2005), "en", "book", "Main", Null, <<>>),
       OmekaItem("6", Num(1970), "ml", "book", "Main", Null,
                 <<MediaRef("m6", Null, Str("  "))>>) >>

\* more items without a thumbnail than fetchTile resolves in one call
BatchPage ==
    [i \in 1..MaxBatch |->
        OmekaItem(ToString(100 + i), Num(1900 + i), "ml", "book", "Main", Null,
                  <<MediaRef("m" \o ToString(100 + i), Thumb(ToString(100 + i)), Null)>>)]
    \o <<MixedPage[1]>>

UpstreamPages == {<<>>, MixedPage, BatchPage}

Upstreams ==
    { Upstream(ok, items, mediaUp) :
        ok \in BOOLEAN, items \in UpstreamPages, mediaUp \in BOOLEAN }

AdapterFilters ==
    { Undefined,
      Obj(<<Prop("languages", Arr(<<"ml">>))>>),
      Obj(<<Prop("periods", Arr(<<"1947" \o EnDash \o "1975", "1890">>))>>) }

\* the limits a caller asks for; the client asks for ITEMS_PER_TILE
Limits == {0, 2, ITEMS_PER_TILE}

AdapterTileRequests ==
    { [tileX |-> x, tileY |-> y, q |-> "", filters |-> f, limit |-> l, seed |-> sd] :
        x \in -1..1, y \in 0..1, f \in AdapterFilters, l \in Limits,
        sd \in {Undefined, Num(1)} }

InitFetchTile ==
    /\ InitStore(0)
    /\ InitHashIdle /\ InitViewerIdle /\ InitSearchIdle /\ InitServerIdle
    /\ call \in [req : AdapterTileRequests, upstream : Upstreams]
    /\ result = <<>>

FetchTile ==
    /\ Len(result) < MaxCalls
    /\ result' = Append(result, fetchTile(call.req, call.upstream))
    /\ UNCHANGED <<call, storeVars, hashVars, viewer, searchVars, serverVars>>

NextFetchTile ==
    \/ FetchTile
    \/ ServerTick(TILES_CACHE_TTL)

SpecFetchTile == InitFetchTile /\ [][NextFetchTile]_vars

(***************************************************************************)
(* The tile endpoint over the adapter: a background revalidation whose     *)
(* upstream items request fails.  What the route sees is what fetchTile    *)
(* gives its caller for that upstream.                                     *)
(***************************************************************************)
FailingUpstream == Upstream(FALSE, <<>>, FALSE)

\* route.ts 27-36 with preload.ts 1263-1273: the upstream request of the
\* background fetchTile call failed
RevalidationUpstreamFails(r) ==
    /\ revalidations[r].status = "running"
    /\ LET outcome == fetchTile(revalidations[r].fetchArgs, FailingUpstream)
       IN IF outcome.threw
          THEN RevalidationThrows(r)
          ELSE RevalidationReturns(r, outcome.items)

NextRevalidate ==
    \/ NextTiles
    \/ \E r \in DOMAIN revalidations : RevalidationUpstreamFails(r)

SpecRevalidate == InitTiles /\ [][NextRevalidate]_vars

(***************************************************************************)
(* OmekaAdapter.search.  The upstream holds the page of the query, whether *)
(* the items request succeeds and the total of the Omeka-S-Total-Results   *)
(* header.                                                                 *)
(***************************************************************************)
SearchUpstream(ok, items, totalResults) ==
    [ok |-> ok, items |-> items, totalResults |-> totalResults]

\* what a call gives its caller: { items, total } or a rejection
SearchOutcome(threw, items, total) == [threw |-> threw, items |-> items, total |-> total]

\* preload.ts 1116-1178: year range, periods and collections are filtered
\* on the page; languages and types are left to the upstream query
searchFilters(items, f) ==
    byCollections(byPeriods(byYearMax(byYearMin(items, f), f), f), f)

\* preload.ts 1183-1188
hasClientSideFilters(f) ==
    /\ f.type # "undefined"
    /\ \/ numberOf(f, "yearMin").type = "number"
       \/ numberOf(f, "yearMax").type = "number"
       \/ Len(listOf(f, "periods")) > 0
       \/ Len(listOf(f, "collections")) > 0

\* Math.round(totalResults * (filtered / page)); where the product lies
\* half-way between two integers it is taken exact and rounded up
roundEstimate(totalResults, filtered, pageLength) ==
    (2 * totalResults * filtered + pageLength) \div (2 * pageLength)

\* an estimate without the "unknown" value
estimateTotalAlways(clientSide, totalResults, filtered, pageLength) ==
    IF clientSide /\ pageLength > 0
    THEN roundEstimate(totalResults, filtered, pageLength)
    ELSE totalResults

\* preload.ts 1191-1201
estimateTotal(clientSide, totalResults, filtered, pageLength) ==
    IF clientSide /\ pageLength > 0
    THEN IF filtered = 0 THEN -1
         ELSE roundEstimate(totalResults, filtered, pageLength)
    ELSE totalResults

\* preload.ts 1109-1208; a failure of fetchItems is not caught
adapterSearch(req, upstream) ==
    LET transformedItems ==
            [i \in 1..Len(upstream.items) |-> transformItem(upstream.items[i])]
        filteredItems == searchFilters(transformedItems, req.filters)
    IN IF ~upstream.ok
       THEN SearchOutcome(TRUE, <<>>, 0)
       ELSE SearchOutcome(FALSE, filteredItems,
                estimateTotal(hasClientSideFilters(req.filters), upstream.totalResults,
                              Len(filteredItems), Len(transformedItems)))

MaxTotal == 120

\* no filter; a year range, a period and a collection nothing on the page
\* matches; ones that some items match; a period label that selects no
\* range; a filter the upstream applies
AdapterSearchFilters ==
    { Undefined,
      Obj(<<Prop("yearMin", Num(2010))>>),
      Obj(<<Prop("yearMax", Num(1800))>>),
      Obj(<<Prop("periods", Arr(<<"1900" \o EnDash \o "1947">>))>>),
      Obj(<<Prop("collections", Arr(<<"Other">>))>>),
      Obj(<<Prop("yearMin", Num(1950)), Prop("yearMax", Num(1960))>>),
      Obj(<<Prop("periods", Arr(<<"1947" \o EnDash \o "1975", "1880 - 1899">>))>>),
      Obj(<<Prop("collections", Arr(<<"Main">>))>>),
      Obj(<<Prop("periods", Arr(<<"recent">>))>>),
      Obj(<<Prop("languages", Arr(<<"ml">>))>>) }

AdapterSearchRequests ==
    { searchRequest(q, page, f) :
        q \in {"", "kerala"}, page \in {1, 2}, f \in AdapterSearchFilters }

SearchUpstreams ==
    { SearchUpstream(ok, items, totalResults) :
        ok \in BOOLEAN, items \in {<<>>, MixedPage},
        totalResults \in {0, Len(MixedPage), MaxTotal} }

InitSearchAdapter ==
    /\ InitStore(0)
    /\ InitHashIdle /\ InitViewerIdle /\ InitSearchIdle /\ InitServerIdle
    /\ call \in [req : AdapterSearchRequests, upstream : SearchUpstreams]
    /\ result = <<>>

AdapterSearch ==
    /\ Len(result) < MaxCalls
    /\ result' = Append(result, adapterSearch(call.req, call.upstream))
    /\ UNCHANGED <<call, storeVars, hashVars, viewer, searchVars, serverVars>>

NextSearchAdapter == AdapterSearch

SpecSearchAdapter == InitSearchAdapter /\ [][NextSearchAdapter]_vars

(***************************************************************************)
(* Search mode of the store (canvas-store.ts 261-400).  searchFetches is   *)
(* the history of the requests to /api/search: which action sent it, the   *)
(* page it asks for and whether its continuation has run.                  *)
(***************************************************************************)
MaxSearchFetches == 4

SearchState(results, total, loading, error, page, hasMore) ==
    [results |-> results, total |-> total, loading |-> loading, error |-> error,
     page |-> page, hasMore |-> hasMore]

SearchFetch(kind, q, page) == [kind |-> kind, q |-> q, page |-> page, done |-> FALSE]

\* the items of a response, each with the query its request asked for
itemsFor(fetch, data) ==
    [k \in 1..Len(data.items) |-> [id |-> data.items[k], q |-> fetch.q]]

settle(i) == [searchFetches EXCEPT ![i].done = TRUE]

\* canvas-store.ts 385-400
ClearSearch ==
    /\ query' = ""
    /\ isSearchMode' = FALSE
    /\ search' = SearchState(<<>>, 0, FALSE, NoError, 1, FALSE)
    /\ Commit(clearTiles(Store))
    /\ UNCHANGED <<searchFetches, filters, now, otherVars>>

\* canvas-store.ts 262-309, up to the await of fetch; trimmedQuery is the
\* trimmed input
PerformSearch(trimmedQuery) ==
    /\ trimmedQuery # ""
    /\ ~(search.loading /\ query = trimmedQuery)
    /\ Len(searchFetches) < MaxSearchFetches
    /\ Commit(clearTiles(Store))
    /\ query' = trimmedQuery
    /\ isSearchMode' = TRUE
    /\ search' = SearchState(<<>>, 0, TRUE, NoError, 1, FALSE)
    /\ searchFetches' = Append(searchFetches, SearchFetch("performSearch", trimmedQuery, 1))
    /\ UNCHANGED <<filters, now, otherVars>>

\* canvas-store.ts 311-321: data.total || 0 is data.total for a number
PerformSearchResolves(i, data) ==
    /\ searchFetches[i].kind = "performSearch" /\ ~searchFetches[i].done
    /\ search' = SearchState(itemsFor(searchFetches[i], data), data.total, FALSE, NoError, 1,
                             Len(data.items) < data.total)
    /\ searchFetches' = settle(i)
    /\ UNCHANGED <<isSearchMode, storeVars, otherVars>>

\* canvas-store.ts 322-333
PerformSearchRejects(i) ==
    /\ searchFetches[i].kind = "performSearch" /\ ~searchFetches[i].done
    /\ search' = SearchState(<<>>, 0, FALSE, "Search failed", 1, FALSE)
    /\ searchFetches' = settle(i)
    /\ UNCHANGED <<isSearchMode, storeVars, otherVars>>

\* canvas-store.ts 336-361, up to the await of fetch
LoadMoreSearchResults ==
    /\ isSearchMode /\ ~search.loading /\ search.hasMore
    /\ Len(searchFetches) < MaxSearchFetches
    /\ search' = [search EXCEPT !.loading = TRUE]
    /\ searchFetches' =
           Append(searchFetches, SearchFetch("loadMoreSearchResults", query, search.page + 1))
    /\ UNCHANGED <<isSearchMode, storeVars, otherVars>>

\* canvas-store.ts 363-373: data.total || s.search.total
LoadMoreResolves(i, data) ==
    /\ searchFetches[i].kind = "loadMoreSearchResults" /\ ~searchFetches[i].done
    /\ search' = SearchState(search.results \o itemsFor(searchFetches[i], data),
                             IF data.total # 0 THEN data.total ELSE search.total,
                             FALSE, NoError, searchFetches[i].page,
                             Len(search.results) + Len(data.items) < data.total)
    /\ searchFetches' = settle(i)
    /\ UNCHANGED <<isSearchMode, storeVars, otherVars>>

\* canvas-store.ts 374-382
LoadMoreRejects(i) ==
    /\ searchFetches[i].kind = "loadMoreSearchResults" /\ ~searchFetches[i].done
    /\ search' = [search EXCEPT !.loading = FALSE, !.error = "Failed to load more"]
    /\ searchFetches' = settle(i)
    /\ UNCHANGED <<isSearchMode, storeVars, otherVars>>

\* FilterBar: the "<total> results" label is rendered
showsCount == isSearchMode /\ ~search.loading /\ search.total > 0

\* InfiniteCanvas: the "No results found" panel is rendered
showsNoResults == isSearchMode /\ ~search.loading /\ Len(search.results) = 0

\* InfiniteCanvas: the scroll effect may ask for the next page
mayLoadMore == isSearchMode /\ search.hasMore /\ ~search.loading

SearchQueries == {"kerala", "malabar"}

\* what /api/search answers: pages with their estimated total, a page on
\* which nothing matched the filters (total -1), and no result at all
ClientSearchData == SearchResults \cup {SearchResponse(<<>>, 0)}

InitClientSearch == InitStore(0) /\ InitIdle

NextClientSearch ==
    \/ \E q \in SearchQueries : PerformSearch(q)
    \/ \E i \in DOMAIN searchFetches, data \in ClientSearchData :
           PerformSearchResolves(i, data)
    \/ \E i \in DOMAIN searchFetches : PerformSearchRejects(i)
    \/ LoadMoreSearchResults
    \/ \E i \in DOMAIN searchFetches, data \in ClientSearchData :
           LoadMoreResolves(i, data)
    \/ \E i \in DOMAIN searchFetches : LoadMoreRejects(i)
    \/ ClearSearch

SpecClientSearch == InitClientSearch /\ [][NextClientSearch]_vars

(***************************************************************************)
(* Geometry (lib/canvas-utils).  A JavaScript number is Num(n) or NaN;     *)
(* arithmetic on NaN gives NaN and every comparison with NaN is false.     *)
(***************************************************************************)
CULL_MARGIN == 300

NaN == [type |-> "NaN"]
isNaN(a) == a.type = "NaN"

negate(a) == IF isNaN(a) THEN NaN ELSE Num(0 - a.value)
plus(a, b) == IF isNaN(a) \/ isNaN(b) THEN NaN ELSE Num(a.value + b.value)
\* Math.floor(a / size) for size > 0
floorDiv(a, size) == IF isNaN(a) THEN NaN ELSE Num(a.value \div size)
lessThan(a, b) == ~isNaN(a) /\ ~isNaN(b) /\ a.value < b.value
lessOrEqual(a, b) == ~isNaN(a) /\ ~isNaN(b) /\ a.value <= b.value

\* a tile range without the padding
tileRangeUnpadded(lo, hi, size) == <<floorDiv(lo, size), floorDiv(hi, size)>>

\* part_010 93-96: the first and last tile index of one axis
tileRange(lo, hi, size) ==
    <<plus(floorDiv(lo, size), Num(-1)), plus(floorDiv(hi, size), Num(1))>>

\* for (let t = min; t <= max; t++): the values t takes
loopValues(min, max) ==
    IF lessOrEqual(min, max)
    THEN [k \in 1..(max.value - min.value + 1) |-> min.value + k - 1]
    ELSE <<>>

\* part_010 83-108
getVisibleTiles(cameraX, cameraY, viewportWidth, viewportHeight) ==
    LET worldLeft == negate(cameraX)
        worldTop == negate(cameraY)
        worldRight == plus(worldLeft, viewportWidth)
        worldBottom == plus(worldTop, viewportHeight)
        xs == tileRange(worldLeft, worldRight, TILE_WIDTH)
        ys == tileRange(worldTop, worldBottom, TILE_HEIGHT)
        txs == loopValues(xs[1], xs[2])
        tys == loopValues(ys[1], ys[2])
    IN [k \in 1..(Len(txs) * Len(tys)) |->
           [tileX |-> txs[((k - 1) \div Len(tys)) + 1],
            tileY |-> tys[((k - 1) % Len(tys)) + 1]]]

\* a visibility test without the margin
isItemVisibleNoMargin(item, cameraX, cameraY, viewportWidth, viewportHeight) ==
    LET screenX == plus(Num(item.x), cameraX)
        screenY == plus(Num(item.y), cameraY)
    IN /\ lessThan(Num(0), plus(screenX, Num(item.width)))
       /\ lessThan(screenX, viewportWidth)
       /\ lessThan(Num(0), plus(screenY, Num(item.height)))
       /\ lessThan(screenY, viewportHeight)

\* part_010 187-203
isItemVisible(item, cameraX, cameraY, viewportWidth, viewportHeight) ==
    LET screenX == plus(Num(item.x), cameraX)
        screenY == plus(Num(item.y), cameraY)
    IN /\ lessThan(Num(0 - CULL_MARGIN), plus(screenX, Num(item.width)))
       /\ lessThan(screenX, plus(viewportWidth, Num(CULL_MARGIN)))
       /\ lessThan(Num(0 - CULL_MARGIN), plus(screenY, Num(item.height)))
       /\ lessThan(screenY, plus(viewportHeight, Num(CULL_MARGIN)))

\* part_010 208-218
cullItems(items, cameraX, cameraY, viewportWidth, viewportHeight) ==
    SelectSeq(items, LAMBDA item :
        isItemVisible(item, cameraX, cameraY, viewportWidth, viewportHeight))

(***************************************************************************)
(* Calls of the geometry functions.  call holds a camera, a viewport and   *)
(* a list of placed items; result holds what getVisibleTiles and cullItems *)
(* return for them.                                                        *)
(***************************************************************************)
MaxPan == 2000

CanvasItemAt(id, x, y) ==
    [id |-> id, x |-> x, y |-> y, width |-> CARD_WIDTH, height |-> CARD_HEIGHT]

\* around camera (-1000, -500) and an 800 x 600 viewport: inside, far away,
\* and on either side of each edge of the viewport enlarged by the margin
PlacedItems ==
    << CanvasItemAt("in", 1000, 500), CanvasItemAt("far", 5000, 5000),
       CanvasItemAt("leftOut", 540, 500), CanvasItemAt("leftIn", 541, 500),
       CanvasItemAt("rightIn", 2099, 500), CanvasItemAt("rightOut", 2100, 500),
       CanvasItemAt("topOut", 1000, 0), CanvasItemAt("topIn", 1000, 1),
       CanvasItemAt("bottomIn", 1000, 1399), CanvasItemAt("bottomOut", 1000, 1400),
       CanvasItemAt("origin", 12, 12) >>

CameraXs == {Num(0), Num(-1000), Num(0 - TILE_WIDTH), Num(TILE_WIDTH - 1), Num(MaxPan), NaN}
CameraYs == {Num(0), Num(-500), Num(0 - TILE_HEIGHT), Num(1), Num(MaxPan), NaN}
ViewportWidths == {Num(800), Num(1), Num(0), Num(-5000), Num(2 * TILE_WIDTH)}
ViewportHeights == {Num(600), Num(1), Num(0), Num(-1), Num(TILE_HEIGHT)}

InitGeometry ==
    /\ InitStore(0)
    /\ InitHashIdle /\ InitViewerIdle /\ InitSearchIdle /\ InitServerIdle
    /\ call \in [cameraX : CameraXs, cameraY : CameraYs,
                 viewportWidth : ViewportWidths, viewportHeight : ViewportHeights,
                 items : {PlacedItems}]
    /\ result = <<>>

Called(op) == \E i \in 1..Len(result) : result[i].op = op
ResultOf(op) == result[CHOOSE i \in 1..Len(result) : result[i].op = op].value

GetVisibleTiles ==
    /\ ~Called("getVisibleTiles")
    /\ result' = Append(result,
           [op |-> "getVisibleTiles",
            value |-> getVisibleTiles(call.cameraX, call.cameraY,
                                      call.viewportWidth, call.viewportHeight)])
    /\ UNCHANGED <<call, storeVars, hashVars, viewer, searchVars, serverVars>>

CullItems ==
    /\ ~Called("cullItems")
    /\ result' = Append(result,
           [op |-> "cullItems",
            value |-> cullItems(call.items, call.cameraX, call.cameraY,
                                call.viewportWidth, call.viewportHeight)])
    /\ UNCHANGED <<call, storeVars, hashVars, viewer, searchVars, serverVars>>

NextGeometry == GetVisibleTiles \/ CullItems

SpecGeometry == InitGeometry /\ [][NextGeometry]_vars

(***************************************************************************)
(* Calls of the placement functions.  call holds a tile and the items of   *)
(* one response; every call appends to result the position of the last     *)
(* item and the placed list.  Between the calls the clock may advance and  *)
(* the query, and with it the store, may change.                           *)
(***************************************************************************)
MaxTile == 2

ArchiveItems(n) == [i \in 1..n |-> [id |-> ToString(i)]]

InitPlacement ==
    /\ InitStore(0)
    /\ InitHashIdle /\ InitViewerIdle /\ InitSearchIdle /\ InitServerIdle
    /\ call \in [tileX : (0 - MaxTile)..MaxTile, tileY : (0 - MaxTile)..MaxTile,
                 items : {ArchiveItems(1), ArchiveItems(3), ArchiveItems(ITEMS_PER_TILE)}]
    /\ result = <<>>

PlaceItems ==
    /\ Len(result) < MaxCalls
    /\ result' = Append(result,
           [position |-> getItemPosition(call.tileX, call.tileY, Len(call.items) - 1),
            placed |-> itemsToCanvasItems(call.items, call.tileX, call.tileY)])
    /\ UNCHANGED <<call, storeVars, hashVars, viewer, searchVars, serverVars>>

NextPlacement ==
    \/ PlaceItems
    \/ Tick
    \/ \E q \in {"", "kerala"} : SetQuery(q)

SpecPlacement == InitPlacement /\ [][NextPlacement]_vars

(***************************************************************************)
(* The pages of two neighbouring tiles.  call holds the two tile requests  *)
(* of one session, result the page fetchTile computes for each.            *)
(***************************************************************************)
MaxCoord == 3
MaxSeed == 101

Coords == (0 - MaxCoord)..MaxCoord
Steps == {<<dx, dy>> \in (-1..1) \X (-1..1) : <<dx, dy>> # <<0, 0>>}
PagingSeeds == 0..MaxSeed

PagingCalls ==
    { <<[tileX |-> x, tileY |-> y, seed |-> sd],
        [tileX |-> x + d[1], tileY |-> y + d[2], seed |-> sd]>> :
        x \in Coords, y \in Coords, d \in Steps, sd \in PagingSeeds }

InitPaging ==
    /\ InitStore(0)
    /\ InitHashIdle /\ InitViewerIdle /\ InitSearchIdle /\ InitServerIdle
    /\ call \in PagingCalls
    /\ result = <<>>

\* preload.ts 1238-1246 for the next request of the pair
ComputePage ==
    /\ Len(result) < Len(call)
    /\ LET req == call[Len(result) + 1]
       IN result' = Append(result, tilePage(req.tileX, req.tileY, req.seed))
    /\ UNCHANGED <<call, storeVars, hashVars, viewer, searchVars, serverVars>>

NextPaging == ComputePage

SpecPaging == InitPaging /\ [][NextPaging]_vars

(***************************************************************************)
(* Properties                                                              *)
(***************************************************************************)
(***************************************************************************)
(* The viewer store (store/viewer-store, part_012).  pages is the list of  *)
(* IIIF pages, here page numbers; index arguments are any integers.        *)
(***************************************************************************)
MaxPages == 3

Min(a, b) == IF a < b THEN a ELSE b
Max(a, b) == IF a > b THEN a ELSE b

\* part_012 107, 116
pageStep == IF viewer.viewMode = "double" THEN 2 ELSE 1

ViewerFrame == UNCHANGED <<storeVars, searchVars, hashVars, serverVars, adapterVars>>

\* part_012 67-84; sourceType is source.type
openViewer(sourceType) ==
    /\ viewer' = [viewer EXCEPT !.isOpen = TRUE,
                                !.documentSource = sourceType,
                                !.pages = <<>>,
                                !.currentIndex = 0,
                                !.loading = (sourceType = "iiif"),
                                !.error = "null"]
    /\ ViewerFrame

\* part_012 86-103
closeViewer ==
    /\ viewer' = [viewer EXCEPT !.isOpen = FALSE,
                                !.documentSource = "null",
                                !.pages = <<>>,
                                !.currentIndex = 0,
                                !.loading = FALSE,
                                !.error = "null"]
    /\ ViewerFrame

\* part_012 105-112
nextPage ==
    /\ LET newIndex == Min(viewer.currentIndex + pageStep, Len(viewer.pages) - 1)
       IN viewer' = IF newIndex # viewer.currentIndex
                    THEN [viewer EXCEPT !.currentIndex = newIndex]
                    ELSE viewer
    /\ ViewerFrame

\* part_012 114-121
prevPage ==
    /\ LET newIndex == Max(viewer.currentIndex - pageStep, 0)
       IN viewer' = IF newIndex # viewer.currentIndex
                    THEN [viewer EXCEPT !.currentIndex = newIndex]
                    ELSE viewer
    /\ ViewerFrame

\* part_012 123-128
goToPage(index) ==
    /\ viewer' = IF index >= 0 /\ index < Len(viewer.pages)
                 THEN [viewer EXCEPT !.currentIndex = index]
                 ELSE viewer
    /\ ViewerFrame

\* part_012 130-134
setCurrentIndex(index) ==
    /\ viewer' = IF index >= 0
                 THEN [viewer EXCEPT !.currentIndex = index]
                 ELSE viewer
    /\ ViewerFrame

\* part_012 136-138
setPages(pages) ==
    /\ viewer' = [viewer EXCEPT !.pages = pages, !.loading = FALSE]
    /\ ViewerFrame

\* part_012 140-142
setLoading(loading) ==
    /\ viewer' = [viewer EXCEPT !.loading = loading]
    /\ ViewerFrame

\* part_012 144-146
setError(error) ==
    /\ viewer' = [viewer EXCEPT !.error = error, !.loading = FALSE]
    /\ ViewerFrame

\* part_012 148-150
setViewMode(mode) ==
    /\ viewer' = [viewer EXCEPT !.viewMode = mode]
    /\ ViewerFrame

\* documents of 0 .. MaxPages pages
PageLists == {[k \in 1..n |-> k] : n \in 0..MaxPages}
\* the index arguments: one below 0 up to one past the longest document
PageIndexes == -1..(MaxPages + 1)

InitViewer == InitStore(0) /\ InitIdle

NextViewer ==
    \/ \E sourceType \in {"iiif", "pdf"} : openViewer(sourceType)
    \/ closeViewer
    \/ nextPage
    \/ prevPage
    \/ \E index \in PageIndexes : goToPage(index)
    \/ \E index \in PageIndexes : setCurrentIndex(index)
    \/ \E pages \in PageLists : setPages(pages)
    \/ \E loading \in BOOLEAN : setLoading(loading)
    \/ \E error \in {"null", "Failed to load manifest"} : setError(error)
    \/ \E mode \in {"single", "double"} : setViewMode(mode)

SpecViewer == InitViewer /\ [][NextViewer]_vars

Range(seq) == {seq[i] : i \in 1..Len(seq)}

Running == {r \in RequestIds : requests[r].status = "running"}

\* a request r is created by this step
Created(r) ==
    /\ requests[r].status = "free"
    /\ requests'[r].status \in {"queued", "running"}

\* C1: while a fetch for a key that was requested since the last clearTiles /
\* setFilters / setQuery has not completed, further loadTile calls for the
\* key issue no fetch: of the requests created since the last clear, at most
\* one per key is queued or running.
C1_OneFetchPerKeySinceClear ==
    \A r1, r2 \in RequestIds :
        ( /\ InFlight(r1) /\ InFlight(r2)
          /\ ~requests[r1].orphan /\ ~requests[r2].orphan
          /\ requests[r1].key = requests[r2].key ) => r1 = r2

\* C2: the number of fetches started and not completed never exceeds
\* MAX_CONCURRENT_REQUESTS.
C2_ActiveWithinLimit ==
    Cardinality(Running) <= MAX_CONCURRENT_REQUESTS

\* C3: for every key at most one fetch is in flight (queued or running),
\* whatever clearTiles / setFilters / setQuery did in between.
C3_OneInFlightPerKey ==
    \A r1, r2 \in RequestIds :
        (InFlight(r1) /\ InFlight(r2) /\ requests[r1].key = requests[r2].key)
            => r1 = r2

\* C4: a loadTile call for a key registered in inFlightRequests (its request
\* queued or running) returns the promise of that request.
C4_JoinsInFlight ==
    \A t \in Tiles :
        LET key == currentKey(t[1], t[2])
        IN ( /\ key \in DOMAIN inFlightRequests
             /\ InFlight(inFlightRequests[key]) )
           => loadTileReturns(t[1], t[2]) = ToString(inFlightRequests[key])

\* C5: when the fetch of a request fails, its promise is resolved (not
\* rejected) and the entry of its key is {items: [], loading: false, error}.
C5_FailureIsRecorded ==
    [][\A r \in RequestIds, m \in ErrorMessages :
          FetchFails(r, m) =>
              /\ requests'[r].status = "resolved"
              /\ requests[r].key \in DOMAIN tiles'
              /\ tiles'[requests[r].key].items = <<>>
              /\ tiles'[requests[r].key].loading = FALSE
              /\ tiles'[requests[r].key].error = m]_vars

\* a completed entry younger than CACHE_TTL
FreshCompleted(key) ==
    /\ key \in DOMAIN tiles
    /\ ~tiles[key].loading
    /\ now - tiles[key].timestamp < CACHE_TTL

\* C6 as claimed: no step creates a request for a key that has a completed
\* entry younger than CACHE_TTL, whatever the entry holds.
C6_AnyFreshEntryShortCircuits ==
    [][\A t \in Tiles, r \in RequestIds :
          FreshCompleted(currentKey(t[1], t[2]))
              => ~(Created(r) /\ requests'[r].key = currentKey(t[1], t[2]))]_vars

\* C6 as amended: no step creates a request for a key that has a completed
\* entry younger than CACHE_TTL holding at least one item.
C6_FreshEntryWithItemsShortCircuits ==
    [][\A t \in Tiles, r \in RequestIds :
          ( /\ FreshCompleted(currentKey(t[1], t[2]))
            /\ Len(tiles[currentKey(t[1], t[2])].items) > 0 )
              => ~(Created(r) /\ requests'[r].key = currentKey(t[1], t[2]))]_vars

\* a fresh entry with items, read after the clock has advanced, while a
\* request can still be created and none is in flight for the key
C6_Witness ==
    \E t \in Tiles :
        LET key == currentKey(t[1], t[2])
        IN /\ FreshCompleted(key)
           /\ Len(tiles[key].items) > 0
           /\ now > tiles[key].timestamp
           /\ key \notin DOMAIN inFlightRequests
           /\ \E r \in RequestIds : requests[r].status = "free"
           /\ loadTileBranch(t[1], t[2]) = "return"

\* a step of clearTiles, setQuery or setFilters
Invalidation ==
    \/ ClearTiles
    \/ \E q \in WideQueries : SetQuery(q)
    \/ \E f \in WideFilterInputs : SetFilters(f)

\* C7: after clearTiles / setQuery / setFilters the tile map, the queue and
\* the in-flight map are empty and the counter is 0, and a request dropped
\* from the queue is never started.
C7_InvalidationClearsAll ==
    [][ /\ Invalidation =>
            /\ tiles' = EmptyMap
            /\ requestQueue' = <<>>
            /\ inFlightRequests' = EmptyMap
            /\ activeRequestCount' = 0
            /\ \A r \in RequestIds :
                   requests[r].status = "queued" => requests'[r].status = "dropped"
        /\ \A r \in RequestIds :
               requests[r].status = "dropped" => requests'[r].status = "dropped" ]_vars

\* a request was dropped from the queue, and a fetch that was running then
\* has completed since (its finally block ran processQueue)
C7_Witness ==
    /\ \E r \in RequestIds : requests[r].status = "dropped"
    /\ activeRequestCount = -1
    /\ requestQueue = <<>>

\* the filter sets the two objects denote: per field, the set of its values
ValuesOf(obj, name) == Range(ArrayOf(obj, name))
SameFilterSet(f, g) ==
    \A name \in {"languages", "types"} : ValuesOf(f, name) = ValuesOf(g, name)

\* C8: when setFilters changes the filter set, no tile has an entry under
\* getTileData any more; a fetch of an old key that completes later resolves
\* its promise, and its key is not the key getTileData looks up while the
\* filter set differs from the one the fetch was made under.
C8_FilterChangeHidesEntries ==
    [][ /\ \A f \in FilterInputs :
               (SetFilters(f) /\ ~SameFilterSet(f, filters))
                   => \A t \in Tiles : getTileData(t[1], t[2])' = Undefined
        /\ \A r \in RequestIds :
               ( /\ requests[r].status = "running"
                 /\ requests[r].orphan
                 /\ requests'[r].status # "running" )
                   => /\ requests'[r].status = "resolved"
                      /\ requests[r].key \in DOMAIN tiles'
                      /\ ~SameFilterSet(requests[r].filters, filters)
                             => currentKey(requests[r].tileX, requests[r].tileY)
                                    # requests[r].key ]_vars

OldKey(tileX, tileY) == getTileKey(tileX, tileY, "", hashFilters(NoFilters))

\* the filters were changed from {} while a fetch for (1,0) was running, and
\* the fetch has landed under its old key
C8_Witness ==
    /\ query = ""
    /\ ~SameFilterSet(filters, NoFilters)
    /\ OldKey(1, 0) \in DOMAIN tiles
    /\ ~tiles[OldKey(1, 0)].loading
    /\ getTileData(0, 0) = Undefined
    /\ getTileData(1, 0) = Undefined

\* the keys lookups are made under, and the entries getAllVisibleItems reads
CurrentKeys == {currentKey(t[1], t[2]) : t \in Tiles}
VisibleKeys == {k \in DOMAIN tiles : ~tiles[k].loading /\ Len(tiles[k].items) > 0}

\* C9: an entry stored under a key of an earlier query / filter context (the
\* result of a fetch that landed after the change) is returned neither by
\* getTileData nor by getAllVisibleItems.
C9_LateResultsInvisible ==
    \A k \in DOMAIN tiles \ CurrentKeys :
        /\ \A t \in Tiles : currentKey(t[1], t[2]) # k
        /\ k \notin VisibleKeys
        /\ \A i \in 1..Len(tiles[k].items) :
               tiles[k].items[i] \notin Range(getAllVisibleItems)

\* C10: two filter objects that denote the same filter set have the same
\* fingerprint, the same client tile key and the same server cache key.
C10_FingerprintCanonical ==
    (ha # "" /\ hb # "" /\ SameFilterSet(fa, fb))
        => /\ ha = hb
           /\ getTileKey(0, 0, "", ha) = getTileKey(0, 0, "", hb)
           /\ serverCacheKey(0, 0, "", fa) = serverCacheKey(0, 0, "", fb)

\* the run a TilesGET / SearchGET step appends
NewHandler == handlers'[Len(handlers) + 1]

RunningRevalidations(key) ==
    {r \in DOMAIN revalidations :
        revalidations[r].key = key /\ revalidations[r].status = "running"}

\* C11: the tile endpoint classifies a cached entry by its age.  age < 30 min:
\* the cached payload with X-Cache HIT and no upstream call; 30 min <= age <
\* 60 min: the cached payload with X-Cache STALE at once, with a background
\* revalidation of the key running; age >= 60 min or no entry: no response
\* before the adapter has returned, then X-Cache MISS and the result stored
\* with timestamp = now.
C11_AgeClassification ==
    [][ /\ \A req \in TileRequests :
               TilesGET(req) =>
                   LET key == tilesCacheKey(req)
                       cached == key \in DOMAIN tileCache
                       age == serverNow - tileCache[key].timestamp
                   IN /\ (cached /\ age < 30 * 60 * 1000) =>
                            /\ NewHandler.status = "responded"
                            /\ NewHandler.xcache = "HIT"
                            /\ NewHandler.data = tileCache[key].data
                            /\ revalidations' = revalidations
                      /\ (cached /\ age >= 30 * 60 * 1000 /\ age < 60 * 60 * 1000) =>
                            /\ NewHandler.status = "responded"
                            /\ NewHandler.xcache = "STALE"
                            /\ NewHandler.data = tileCache[key].data
                            /\ \E r \in DOMAIN revalidations' :
                                   /\ revalidations'[r].key = key
                                   /\ revalidations'[r].status = "running"
                      /\ (~cached \/ age >= 60 * 60 * 1000) =>
                            /\ NewHandler.status = "fetching"
                            /\ NewHandler.fetchArgs.tileX = req.tx
                            /\ NewHandler.fetchArgs.tileY = req.ty
        /\ \A h \in DOMAIN handlers, items \in AdapterItems :
               TilesFetchReturns(h, items) =>
                   /\ handlers'[h].xcache = "MISS"
                   /\ handlers'[h].data.items = items
                   /\ tileCache'[handlers[h].key].timestamp = serverNow
                   /\ tileCache'[handlers[h].key].data.items = items ]_vars

\* the three classes have been served, the miss at a time later than 0
C11_Witness ==
    /\ \E h \in DOMAIN handlers : handlers[h].xcache = "HIT"
    /\ \E h \in DOMAIN handlers : handlers[h].xcache = "STALE"
    /\ \E h \in DOMAIN handlers :
           /\ handlers[h].xcache = "MISS"
           /\ handlers[h].key \in DOMAIN tileCache
           /\ tileCache[handlers[h].key].timestamp > 0

C14_SeedReachesAdapterAndKey ==
    /\ \A h \in DOMAIN handlers :
           (handlers[h].route = "tiles" /\ handlers[h].status = "fetching")
               => effectiveSeed(handlers[h].fetchArgs) = handlers[h].request.seed
    /\ \A h1, h2 \in DOMAIN handlers :
           ( /\ handlers[h1].route = "tiles" /\ handlers[h2].route = "tiles"
             /\ handlers[h1].request.seed # handlers[h2].request.seed
             /\ [handlers[h1].request EXCEPT !.seed = 0]
                    = [handlers[h2].request EXCEPT !.seed = 0] )
               => handlers[h1].key # handlers[h2].key

\* C13: the search cache serves an entry in its stale window at once, as the
\* tile cache does, and fetches synchronously only at age >= staleTTL.
\* Whatever staleTTL > freshTTL the cache has, an entry whose age is exactly
\* freshTTL lies in the stale window: a GET for its key responds in its first
\* run with the cached payload.
C13_SearchCacheServesStale ==
    [][ \A req \in SearchRequests :
            ( /\ SearchGET(req)
              /\ searchCacheKey(req) \in DOMAIN searchCache
              /\ serverNow - searchCache[searchCacheKey(req)].timestamp = 5 * 60 * 1000 )
                => /\ NewHandler.status = "responded"
                   /\ NewHandler.data = searchCache[searchCacheKey(req)].data ]_vars

(***************************************************************************)
(* C16: two distinct tiles whose coordinates differ by at most 1 in each   *)
(* axis, with the same seed >= 0, get different upstream page numbers;     *)
(* this includes pairs on either side of the negative / non-negative       *)
(* boundary.                                                               *)
(***************************************************************************)
C16_NeighboursGetDifferentPages ==
    Len(result) = 2 => result[1] # result[2]

\* both pages are computed for a pair that straddles the boundary on both axes
C16_Witness ==
    /\ Len(result) = 2
    /\ call[1].tileX = -1 /\ call[2].tileX = 0
    /\ call[1].tileY = 0 /\ call[2].tileY = -1
    /\ call[1].seed = 57

C17_ItemsFailureGivesEmptyList ==
    ~call.upstream.ok =>
        \A i \in 1..Len(result) : ~result[i].threw /\ result[i].items = <<>>

\* a call has met a failing upstream whose page would have had items
C17_Witness ==
    /\ ~call.upstream.ok
    /\ Len(call.upstream.items) > 0
    /\ Len(result) >= 1

C19_NoMatchGivesUnknownTotal ==
    \A i \in 1..Len(result) :
        ( /\ ~result[i].threw
          /\ hasClientSideFilters(call.req.filters)
          /\ Len(call.upstream.items) > 0
          /\ result[i].items = <<>> )
        => result[i].total = -1

\* a search with a period filter met a page of six items none of which is
\* in the period, with 120 results upstream
C19_Witness ==
    /\ Len(result) >= 1
    /\ ~result[1].threw
    /\ Len(listOf(call.req.filters, "periods")) > 0
    /\ call.upstream.items = MixedPage
    /\ call.upstream.totalResults = MaxTotal
    /\ result[1].items = <<>>

(***************************************************************************)
(* C20: a search response whose total is -1 means "count not known", not   *)
(* "no results": while the store holds that total the client displays no   *)
(* count, does not mark the result set as exhausted (hasMore = false) and  *)
(* does not show the result set as empty.                                  *)
(***************************************************************************)
C20_UnknownTotalIsNotNoResults ==
    (isSearchMode /\ ~search.loading /\ search.total = -1) =>
        /\ ~showsCount
        /\ search.hasMore
        /\ ~showsNoResults

(***************************************************************************)
(* C21: search.results holds only items returned for the query currently   *)
(* stored in the state, for every interleaving of performSearch,           *)
(* loadMoreSearchResults and their responses: no item of a response to an  *)
(* earlier query survives or is appended after a newer performSearch.      *)
(***************************************************************************)
C21_ResultsBelongToCurrentQuery ==
    \A k \in 1..Len(search.results) : search.results[k].q = query

(***************************************************************************)
(* C22: a tile entry with loading = true never serves rendering or         *)
(* culling: getAllVisibleItems does not take the items of such an entry,   *)
(* and none of its items is in the list returned.                          *)
(***************************************************************************)
C22_LoadingEntriesServeNothing ==
    \A k \in DOMAIN tiles :
        tiles[k].loading =>
            /\ ~servesRender(tiles[k])
            /\ \A i \in 1..Len(tiles[k].items) :
                   tiles[k].items[i] \notin Range(getAllVisibleItems)

\* one tile is being fetched while another has items to render
C22_Witness ==
    /\ \E k \in DOMAIN tiles : tiles[k].loading
    /\ Len(getAllVisibleItems) > 0

(***************************************************************************)
(* C23: for a camera and a viewport that are numbers, getVisibleTiles      *)
(* returns, without duplicates, exactly the tiles with                     *)
(* floor(left/W)-1 <= tileX <= floor(right/W)+1 and                        *)
(* floor(top/H)-1 <= tileY <= floor(bottom/H)+1, where [left, right] x     *)
(* [top, bottom] is the world-space viewport; so every tile whose          *)
(* rectangle intersects the viewport is returned with its 8 neighbours.    *)
(***************************************************************************)
WorldLeft == 0 - call.cameraX.value
WorldTop == 0 - call.cameraY.value
WorldRight == WorldLeft + call.viewportWidth.value
WorldBottom == WorldTop + call.viewportHeight.value

\* the half-open rectangle of the tile meets the closed viewport
TouchesViewport(tileX, tileY) ==
    /\ tileX * TILE_WIDTH <= WorldRight /\ (tileX + 1) * TILE_WIDTH > WorldLeft
    /\ tileY * TILE_HEIGHT <= WorldBottom /\ (tileY + 1) * TILE_HEIGHT > WorldTop

ScanTiles == (-12..12) \X (-12..12)

C23_VisibleTilesArePaddedRange ==
    (Called("getVisibleTiles") /\ ~isNaN(call.cameraX) /\ ~isNaN(call.cameraY)) =>
        LET returned == ResultOf("getVisibleTiles")
        IN /\ \A i, j \in 1..Len(returned) : i # j => returned[i] # returned[j]
           /\ Range(returned) =
                  { [tileX |-> tx, tileY |-> ty] :
                      tx \in ((WorldLeft \div TILE_WIDTH) - 1)..((WorldRight \div TILE_WIDTH) + 1),
                      ty \in ((WorldTop \div TILE_HEIGHT) - 1)..((WorldBottom \div TILE_HEIGHT) + 1) }
           /\ (call.viewportWidth.value > 0 /\ call.viewportHeight.value > 0) =>
                  \A t \in ScanTiles :
                      TouchesViewport(t[1], t[2]) =>
                          \A dx, dy \in -1..1 :
                              [tileX |-> t[1] + dx, tileY |-> t[2] + dy] \in Range(returned)

\* the tiles of an 800 x 600 viewport that lies across a tile border on the
\* negative side of the world
C23_Witness ==
    /\ Called("getVisibleTiles")
    /\ call.cameraX = Num(TILE_WIDTH - 1) /\ call.cameraY = Num(1)
    /\ call.viewportWidth = Num(800) /\ call.viewportHeight = Num(600)
    /\ Len(ResultOf("getVisibleTiles")) = 12

(***************************************************************************)
(* C24: cullItems keeps, in their order, exactly the items whose           *)
(* screen-space box (item.x + cameraX, item.y + cameraY, width, height)    *)
(* intersects the viewport enlarged by the cull margin on every side; with *)
(* an 800 x 600 viewport and camera (-1000, -500) a 160 x 200 item at      *)
(* world (1000, 500) is kept and an item at (5000, 5000) is dropped.       *)
(***************************************************************************)
\* two intervals share more than a point
Overlap(aLow, aHigh, bLow, bHigh) == aLow < bHigh /\ bLow < aHigh

InEnlargedViewport(item) ==
    /\ Overlap(item.x + call.cameraX.value, item.x + call.cameraX.value + item.width,
               0 - CULL_MARGIN, call.viewportWidth.value + CULL_MARGIN)
    /\ Overlap(item.y + call.cameraY.value, item.y + call.cameraY.value + item.height,
               0 - CULL_MARGIN, call.viewportHeight.value + CULL_MARGIN)

C24_CullKeepsIntersectingItems ==
    (Called("cullItems") /\ ~isNaN(call.cameraX) /\ ~isNaN(call.cameraY)) =>
        LET kept == ResultOf("cullItems")
        IN /\ kept = SelectSeq(call.items, InEnlargedViewport)
           /\ ( /\ call.cameraX = Num(-1000) /\ call.cameraY = Num(-500)
                /\ call.viewportWidth = Num(800) /\ call.viewportHeight = Num(600) )
              => /\ CanvasItemAt("in", 1000, 500) \in Range(kept)
                 /\ CanvasItemAt("far", 5000, 5000) \notin Range(kept)

\* the example of the claim: the items kept are the one inside and the four
\* just inside the enlarged viewport
C24_Witness ==
    /\ Called("cullItems")
    /\ call.cameraX = Num(-1000) /\ call.cameraY = Num(-500)
    /\ call.viewportWidth = Num(800) /\ call.viewportHeight = Num(600)
    /\ [i \in 1..Len(ResultOf("cullItems")) |-> ResultOf("cullItems")[i].id]
           = <<"in", "leftIn", "rightIn", "topIn", "bottomIn">>

(***************************************************************************)
(* C25: for a non-positive viewport size (width <= 0 or height <= 0) or a  *)
(* NaN camera, getVisibleTiles returns no tiles and cullItems returns no   *)
(* items.                                                                  *)
(***************************************************************************)
MalformedGeometry ==
    \/ isNaN(call.cameraX) \/ isNaN(call.cameraY)
    \/ call.viewportWidth.value <= 0
    \/ call.viewportHeight.value <= 0

C25_MalformedGeometryShowsNothing ==
    MalformedGeometry => \A i \in 1..Len(result) : result[i].value = <<>>

(***************************************************************************)
(* C26: the bounding boxes getItemPosition gives the 25 items of a full    *)
(* tile (indices 0..24) are pairwise disjoint, for every tile coordinate.  *)
(***************************************************************************)
Disjoint(a, b) ==
    \/ a.x + a.width <= b.x \/ b.x + b.width <= a.x
    \/ a.y + a.height <= b.y \/ b.y + b.height <= a.y

C26_BoxesOfATileAreDisjoint ==
    \A k \in 1..Len(result) :
        \A i, j \in 1..Len(result[k].placed) :
            i # j => Disjoint(result[k].placed[i], result[k].placed[j])

\* a full tile with negative coordinates has been placed
C26_Witness ==
    /\ Len(result) >= 1
    /\ Len(result[1].placed) = COLS_PER_TILE * ROWS_PER_TILE
    /\ call.tileX < 0 /\ call.tileY < 0

FailedTile(key) ==
    /\ key \in DOMAIN tiles
    /\ ~tiles[key].loading
    /\ tiles[key].items = <<>>
    /\ tiles[key].error # NoError

\* C28: a failed entry (error set, no items) is a miss for loadTile: the
\* call for its key does not return on the entry, and unless a retry is
\* already registered in inFlightRequests the call creates a new request
\* for the key.
C28_FailedEntryIsAMiss ==
    [][\A t \in Tiles :
          LET key == currentKey(t[1], t[2])
          IN FailedTile(key) =>
               /\ loadTileBranch(t[1], t[2]) # "return"
               /\ (LoadTile(t[1], t[2]) /\ key \notin DOMAIN inFlightRequests)
                     => \E r \in RequestIds :
                            /\ Created(r)
                            /\ requests'[r].key = key
                            /\ inFlightRequests'[key] = r]_vars

\* a failed entry that has aged, with no retry registered and a request
\* left to create: the state the next viewport-triggered loadTile meets
C28_Witness ==
    \E t \in Tiles :
        LET key == currentKey(t[1], t[2])
        IN /\ FailedTile(key)
           /\ now > tiles[key].timestamp
           /\ key \notin DOMAIN inFlightRequests
           /\ \E r \in RequestIds : requests[r].status = "free"
           /\ ENABLED LoadTile(t[1], t[2])

\* the fetch of request r is started by this step, at once or from the queue
Started(r) ==
    /\ requests[r].status \in {"free", "queued"}
    /\ requests'[r].status = "running"

\* C29: a request created while activeRequestCount is below
\* MAX_CONCURRENT_REQUESTS starts at once, any other is appended to the tail
\* of requestQueue; and fetches start in the order of submission: no fetch
\* starts while a request submitted before it still waits in the queue.
\* (Requests are numbered in the order loadTile creates them.)
C29_StartsInSubmissionOrder ==
    [][/\ \A r \in RequestIds :
            Created(r) =>
                /\ \A a \in RequestIds : a < r => requests[a].status # "free"
                /\ IF activeRequestCount < MAX_CONCURRENT_REQUESTS
                   THEN /\ requests'[r].status = "running"
                        /\ requestQueue' = requestQueue
                   ELSE /\ requests'[r].status = "queued"
                        /\ requestQueue' = Append(requestQueue, r)
       /\ \A a, b \in RequestIds :
            (a < b /\ Started(b)) => requests'[a].status # "queued"]_vars

\* two requests wait in the queue, A submitted before B, and a running
\* fetch is about to complete
C29_Witness ==
    /\ Len(requestQueue) = 2
    /\ requestQueue[1] < requestQueue[2]
    /\ activeRequestCount = MAX_CONCURRENT_REQUESTS
    /\ \E r \in RequestIds, m \in ErrorMessages : ENABLED FetchFailsAtOrigin(r, m)

\* the fetch of request r completes in this step
Completes(r) ==
    /\ requests[r].status = "running"
    /\ requests'[r].status = "resolved"

\* the requests this step takes from the queue and starts
StartedFromQueue ==
    {q \in RequestIds : requests[q].status = "queued" /\ requests'[q].status = "running"}

\* the tile map after entry was written under key and the fetches of the
\* requests in started have then written their loading entries
TilesAfter(key, entry, started) ==
    [k \in DOMAIN tiles \cup {key} \cup {requests[q].key : q \in started} |->
        IF \E q \in started : requests[q].key = k THEN LoadingEntry(now)
        ELSE IF k = key THEN entry
        ELSE tiles[k]]

\* C30: on every completion of a fetch, with success or failure, the result
\* is written into the tile map under the key of the request,
\* activeRequestCount is decremented by exactly one, the in-flight marker of
\* the key is removed, and then at most one queued request is started: the
\* head of the queue.
C30_CompletionStartsAtMostOne ==
    [][\A r \in RequestIds :
          Completes(r) =>
              LET key == requests[r].key
                  started == StartedFromQueue
              IN /\ Cardinality(started) <= 1
                 /\ started # {} => started = {Head(requestQueue)}
                 /\ requestQueue' = IF started = {} THEN requestQueue
                                     ELSE Tail(requestQueue)
                 /\ activeRequestCount' =
                        activeRequestCount - 1 + Cardinality(started)
                 /\ inFlightRequests' = MapDelete(inFlightRequests, key)
                 /\ \E entry \in {FailedEntry(m, now) : m \in ErrorMessages} \cup
                                  {LoadedEntry(itemsToCanvasItems(items,
                                       requests[r].tileX, requests[r].tileY), now) :
                                   items \in WideResponseItems \cup ResponseItems} :
                        tiles' = TilesAfter(key, entry, started)]_vars

\* two requests wait in the queue while a fetch is about to succeed and
\* another is about to fail
C30_Witness ==
    /\ Len(requestQueue) = 2
    /\ \E r \in RequestIds, items \in WideResponseItems :
           ENABLED FetchSucceedsNear(r, items)
    /\ \E r \in RequestIds, m \in ErrorMessages :
           ENABLED FetchFailsAtOrigin(r, m)

\* the timestamp of the entry under key is written by this step: the entry
\* is new or its timestamp differs
TimestampWritten(key) ==
    /\ key \in DOMAIN tiles'
    /\ key \in DOMAIN tiles => tiles'[key].timestamp # tiles[key].timestamp

\* C31 as claimed: the timestamp of a tile entry is written only by a step
\* in which a fetch for its key terminates.
C31_TimestampOnlyOnTermination ==
    [][\A key \in DOMAIN tiles' :
          TimestampWritten(key) =>
              \E r \in RequestIds : Completes(r) /\ requests[r].key = key]_vars

\* C31 as amended: the timestamp of a tile entry is written, with the
\* current time, only by a step in which a fetch for its key starts (the
\* loading entry) or terminates (the loaded or failed entry); a loadTile
\* call that returns on an existing entry writes nothing.
C31_TimestampOnStartOrTermination ==
    [][\A key \in DOMAIN tiles' :
          TimestampWritten(key) =>
              /\ tiles'[key].timestamp = now
              /\ \/ \E r \in RequestIds :
                        /\ Started(r) /\ requests'[r].key = key
                        /\ tiles'[key].loading
                 \/ \E r \in RequestIds :
                        /\ Completes(r) /\ requests[r].key = key
                        /\ ~tiles'[key].loading]_vars

\* a loaded entry with items, read after the clock has advanced: the next
\* loadTile for its key is a cache hit
C31_Witness ==
    \E t \in Tiles :
        LET key == currentKey(t[1], t[2])
        IN /\ FreshCompleted(key)
           /\ Len(tiles[key].items) > 0
           /\ now > tiles[key].timestamp
           /\ loadTileBranch(t[1], t[2]) = "return"
           /\ ENABLED LoadTile(t[1], t[2])

\* the handler h stores its response on the miss path in this step
MissPathWrite(h) ==
    /\ handlers[h].route = "tiles"
    /\ handlers[h].status = "fetching"
    /\ handlers'[h].status = "responded"
    /\ handlers'[h].xcache = "MISS"

\* C32: when a miss-path write leaves tileCache with more than
\* TILE_CACHE_LIMIT entries, the sweep removes exactly the entries older
\* than STALE_TTL, so that no remaining entry is older than STALE_TTL; a
\* write that leaves no more than TILE_CACHE_LIMIT entries removes nothing,
\* and no other step removes an entry.
C32_SweepRemovesExactlyTheExpired ==
    [][/\ \A h \in DOMAIN handlers :
            MissPathWrite(h) =>
                LET written == DOMAIN tileCache \cup {handlers[h].key}
                    age(k) == IF k = handlers[h].key THEN 0
                              ELSE serverNow - tileCache[k].timestamp
                IN IF Cardinality(written) > TILE_CACHE_LIMIT
                   THEN /\ DOMAIN tileCache' = {k \in written : age(k) <= STALE_TTL}
                        /\ \A k \in DOMAIN tileCache' :
                               serverNow - tileCache'[k].timestamp <= STALE_TTL
                   ELSE DOMAIN tileCache' = written
       /\ (\A h \in DOMAIN handlers : ~MissPathWrite(h))
             => DOMAIN tileCache \subseteq DOMAIN tileCache']_vars

\* a sweep has run: the cache exceeded TILE_CACHE_LIMIT, the entries written
\* at time 0 are gone and those whose age is exactly STALE_TTL are kept
C32_Witness ==
    /\ Cardinality(DOMAIN tileCache) < TILE_CACHE_LIMIT - 1
    /\ \E k \in DOMAIN tileCache : serverNow - tileCache[k].timestamp = STALE_TTL
    /\ \E h \in DOMAIN handlers : handlers[h].xcache = "MISS"

\* C33: activeRequestCount is never negative and equals the number of tile
\* fetches that have started and not completed.
C33_CounterIsExact ==
    /\ activeRequestCount >= 0
    /\ activeRequestCount = Cardinality(Running)

\* the part of C33 about the sign alone
C33_CounterNeverNegative == activeRequestCount >= 0

\* C34: if every fetch eventually completes, the promise of every request
\* loadTile created (and returned, to the creating call and to the calls
\* that joined it) is eventually resolved: from some moment on no created
\* request has a pending promise.
C34_EveryPromiseResolves ==
    <>[](\A r \in RequestIds : requests[r].status \in {"free", "resolved"})

\* the part of C34 about the requests whose fetch was started
C34_StartedPromisesResolve ==
    <>[](\A r \in RequestIds : requests[r].status # "running")

\* C35: if every fetch eventually completes, every entry with loading =
\* true eventually has loading = false or is removed, whatever clearTiles,
\* setQuery, setFilters and further loadTile calls do in between: once
\* the loadTile calls have ended, isAnyTileLoading() is false for good.
C35_LoadingEnds == <>[](~isAnyTileLoading)

\* every request was created and started, all fetches have completed and
\* entries remain: each of them was a loading entry and none is any more
C35_Witness ==
    /\ ~isAnyTileLoading
    /\ tiles # EmptyMap
    /\ \A r \in RequestIds : requests[r].status = "resolved"

\* C36: no request waits while a slot is free: whenever requestQueue is
\* non-empty, activeRequestCount equals MAX_CONCURRENT_REQUESTS.
C36_NoWaitingWhileSlotFree ==
    Len(requestQueue) > 0 => activeRequestCount = MAX_CONCURRENT_REQUESTS

\* a request waits after a clearTiles has left fetches running: the counter
\* is at the limit although more fetches than that are running
C36_Witness ==
    /\ Len(requestQueue) > 0
    /\ \E r \in RequestIds : requests[r].status = "running" /\ requests[r].orphan

\* C37: when a background revalidation fails because the upstream fetch
\* errors, the cached entry of its key keeps its payload and its timestamp.
C37_FailedRevalidationKeepsEntry ==
    [][\A r \in DOMAIN revalidations :
          RevalidationUpstreamFails(r) =>
              /\ revalidations[r].key \in DOMAIN tileCache
                    => /\ revalidations[r].key \in DOMAIN tileCache'
                       /\ tileCache'[revalidations[r].key] =
                              tileCache[revalidations[r].key]
              /\ revalidations[r].key \notin DOMAIN tileCache
                    => revalidations[r].key \notin DOMAIN tileCache']_vars

\* the part of C37 that holds: a revalidation that throws (getDataAdapter
\* rejects, or fetchTile throws after its items request) changes no entry
C37_ThrownRevalidationKeepsEntry ==
    [][\A r \in DOMAIN revalidations :
          (revalidations[r].status = "running" /\ revalidations'[r].status = "failed")
              => tileCache' = tileCache]_vars

\* the handlers of the tile endpoint that wait for adapter.fetchTile
FetchingHandlers(key) ==
    {h \in DOMAIN handlers : /\ handlers[h].route = "tiles"
                             /\ handlers[h].status = "fetching"
                             /\ handlers[h].key = key}

\* the background revalidations that wait for adapter.fetchTile
FetchingRevalidations(key) ==
    {r \in DOMAIN revalidations : /\ revalidations[r].status = "running"
                                  /\ revalidations[r].key = key}

\* C38: for one cache key at most one fetchTile call is in progress on the
\* server, miss-path fetches and background revalidations counted together.
C38_OneUpstreamFetchPerKey ==
    \A req \in TileRequests :
        Cardinality(FetchingHandlers(tilesCacheKey(req)))
            + Cardinality(FetchingRevalidations(tilesCacheKey(req))) <= 1

\* the part of C38 about revalidations alone
C38_OneRevalidationPerKey ==
    \A req \in TileRequests :
        Cardinality(FetchingRevalidations(tilesCacheKey(req))) <= 1

\* the pagination requests whose response has not been handled
PendingPagination ==
    {i \in DOMAIN searchFetches :
        searchFetches[i].kind = "loadMoreSearchResults" /\ ~searchFetches[i].done}

\* this step sends a pagination request
PaginationSent ==
    /\ Len(searchFetches') = Len(searchFetches) + 1
    /\ searchFetches'[Len(searchFetches')].kind = "loadMoreSearchResults"

\* the response of the pagination request i is handled by this step
PaginationSettled(i) ==
    /\ i \in PendingPagination
    /\ searchFetches'[i].done

\* loadMoreSearchResults sends a request only in search mode, while not
\* loading and with hasMore set
C39_GuardedPagination ==
    [][PaginationSent => (isSearchMode /\ ~search.loading /\ search.hasMore)]_vars

\* a pagination response that fails leaves results, page, total and hasMore
\* as they are, sets loading = false and records the error
C39_FailedPaginationKeepsResults ==
    [][\A i \in DOMAIN searchFetches :
          (PaginationSettled(i) /\ search'.error # NoError) =>
              search' = [search EXCEPT !.loading = FALSE,
                                       !.error = "Failed to load more"]]_vars

\* a pagination response that succeeds increases page by one and appends
\* its items after the existing results
C39_PaginationAdvancesByOne ==
    [][\A i \in DOMAIN searchFetches :
          (PaginationSettled(i) /\ search'.error = NoError) =>
              /\ search'.page = search.page + 1
              /\ Len(search'.results) >= Len(search.results)
              /\ SubSeq(search'.results, 1, Len(search.results)) = search.results]_vars

\* at most one pagination request is in flight
C39_OnePaginationInFlight == Cardinality(PendingPagination) <= 1

\* C39: loadMoreSearchResults does nothing unless the store is in search
\* mode, not loading and hasMore is set, so at most one pagination request
\* is in flight; a successful one increases search.page by exactly 1 and
\* appends its items after the existing results; a failed one leaves
\* results, page, total and hasMore unchanged, sets loading = false and
\* records the error.
C39_PaginationIsSerial ==
    [][/\ PaginationSent => (isSearchMode /\ ~search.loading /\ search.hasMore)
       /\ Cardinality(PendingPagination) <= 1
       /\ \A i \in DOMAIN searchFetches :
            PaginationSettled(i) =>
                IF search'.error = NoError
                THEN /\ search'.page = search.page + 1
                     /\ Len(search'.results) >= Len(search.results)
                     /\ SubSeq(search'.results, 1, Len(search.results)) = search.results
                ELSE search' = [search EXCEPT !.loading = FALSE,
                                              !.error = "Failed to load more"]]_vars

\* C40: after any sequence of viewer-store actions currentIndex is never
\* negative and, whenever pages is non-empty, less than pages.length.
C40_IndexWithinPages ==
    /\ viewer.currentIndex >= 0
    /\ Len(viewer.pages) > 0 => viewer.currentIndex < Len(viewer.pages)

\* the part of C40 about the sign alone
C40_IndexNeverNegative == viewer.currentIndex >= 0

\* the part of C40 about the upper end alone
C40_IndexBelowLength ==
    Len(viewer.pages) > 0 => viewer.currentIndex < Len(viewer.pages)


====
